---- MODULE Spec2Model ----
(***************************************************************************)
(* A model of the result aggregation and persistence layer of the          *)
(* lighthouse-inspection dashboard:                                        *)
(*   - LighthouseStorage (calculateAverageScores, saveResult,              *)
(*     saveToLocalStorage, getResultById, testConnection),                 *)
(*   - App.migrateLocalStorageData (the start-up migration),               *)
(*   - App.runPerformanceTest (the per-route audit loop).                  *)
(*                                                                         *)
(* The browser runs one thread: every action below is the code between two *)
(* suspension points (await) of one async function.                        *)
(***************************************************************************)
EXTENDS Integers, Sequences, FiniteSets, TLC

(***************************************************************************)
(* Bounds of the model.                                                    *)
(***************************************************************************)
\* longest route list of a run
MaxRoutes == 3
\* events of the environment in one behaviour: runs started, page loads after
\* the first, clock ticks between two steps, inserts the remote store refuses
MaxEvents == 3

\* LighthouseStorage.saveToLocalStorage keeps history.slice(0, 9) behind the new record
KeepOld == 9
LocalCap == KeepOld + 1

(***************************************************************************)
(* Metrics.  The category scores are integers 0..100; the other fields may *)
(* have a fraction and are held in thousandths (1.2 is 1200); they are     *)
(* carried through unchanged by everything but the normalizer.             *)
(***************************************************************************)
\* 1.0 in thousandths
One == 1000

\* src/src/services/lighthouseService.ts: LighthouseMetrics, as the audit
\* returns it (the times in milliseconds)
AuditMetrics(p, a, b, s) ==
    [performance |-> p, accessibility |-> a, bestPractices |-> b, seo |-> s,
     fcp |-> 1200 * One, lcp |-> 2500 * One, cls |-> 0, fid |-> 16 * One,
     tbt |-> 150 * One, si |-> 3400 * One]

\* the audit results the model draws from
MetricsSamples ==
    { AuditMetrics(80, 91, 75, 100), AuditMetrics(81, 90, 100, 99),
      AuditMetrics(61, 70, 83, 0),   AuditMetrics(100, 100, 100, 100) }

\* App.tsx 193-202: the record substituted for a failed route
ZeroMetrics ==
    [performance |-> 0, accessibility |-> 0, bestPractices |-> 0, seo |-> 0,
     fcp |-> 0, lcp |-> 0, cls |-> 0, fid |-> 0]

\* route paths a user may type into the free-text path field, in the key
\* order of jsonb (shorter keys first): "1" is a path typed without the slash,
\* and a path used twice in a list is a duplicate path
Paths == <<"/", "1", "/a", "/b">>

(***************************************************************************)
(* A JavaScript object used as a mapping path -> Metrics is the sequence   *)
(* of its entries in the order the language enumerates own keys: first the *)
(* integer-like keys (array indexes such as "1") in ascending numeric      *)
(* order, then the other keys in insertion order.  The keys are pairwise   *)
(* distinct.                                                               *)
(***************************************************************************)
HasKey(obj, k) == \E i \in 1..Len(obj) : obj[i].path = k

\* the key is the canonical text of an array index, and the index it spells
IsIndexKey(k) == k \in {"1"}
IndexOfKey(k) == IF k = "1" THEN 1 ELSE 0

\* obj[k] = v : an existing key keeps its place; a new integer-like key goes
\* behind the smaller integer-like keys, any other new key to the end
ObjSet(obj, k, v) ==
    IF HasKey(obj, k)
    THEN [i \in 1..Len(obj) |->
             IF obj[i].path = k THEN [path |-> k, metrics |-> v] ELSE obj[i]]
    ELSE IF IsIndexKey(k)
    THEN LET smaller == { i \in 1..Len(obj) :
                            IsIndexKey(obj[i].path) /\ IndexOfKey(obj[i].path) < IndexOfKey(k) }
             before  == Cardinality(smaller)
         IN  SubSeq(obj, 1, before) \o <<[path |-> k, metrics |-> v]>>
                \o SubSeq(obj, before + 1, Len(obj))
    ELSE Append(obj, [path |-> k, metrics |-> v])

\* Object.keys(obj): the keys in enumeration order
ObjKeys(obj) == [i \in 1..Len(obj) |-> obj[i].path]

RECURSIVE SumField(_, _)
SumField(obj, f) ==
    IF obj = <<>> THEN 0
    ELSE obj[1].metrics[f] + SumField(Tail(obj), f)

\* Math.round(t / n) for t >= 0, n > 0: halves round up
MathRoundDivFloor(t, n) == t \div n
MathRoundDiv(t, n) == (2 * t + n) \div (2 * n)

ScoreFields == {"performance", "accessibility", "bestPractices", "seo"}

\* LighthouseStorage.calculateAverageScores
calculateAverageScores(results) ==
    LET routeCount == Len(results) IN
    IF routeCount = 0
    THEN [performance |-> 0, accessibility |-> 0, bestPractices |-> 0, seo |-> 0]
    ELSE [performance   |-> MathRoundDiv(SumField(results, "performance"), routeCount),
          accessibility |-> MathRoundDiv(SumField(results, "accessibility"), routeCount),
          bestPractices |-> MathRoundDiv(SumField(results, "bestPractices"), routeCount),
          seo           |-> MathRoundDiv(SumField(results, "seo"), routeCount)]


(***************************************************************************)
(* Records.  A url is the sequence of its tokens (scheme, host, path), a   *)
(* timestamp is an instant (ms) in one of its representations: the number  *)
(* Date.now() gives, the text Date.toISOString() gives ("...Z"), the text  *)
(* a timestamptz column gives back ("...+00:00").                          *)
(***************************************************************************)
Schemes == {"http://", "https://"}

\* new URL(url).hostname, or url itself when new URL(url) throws
extractDomainNoFallback(url) ==
    IF Len(url) >= 2 /\ url[1] \in Schemes THEN <<url[2]>> ELSE <<>>
extractDomain(url) ==
    IF Len(url) >= 2 /\ url[1] \in Schemes THEN <<url[2]>> ELSE url

\* typeof timestamp === "number" ? new Date(timestamp).toISOString() : timestamp
normalizeTimestamp(timestamp) ==
    IF timestamp.repr = "number"
    THEN [repr |-> "isoZ", ms |-> timestamp.ms]
    ELSE timestamp

\* the first lines of saveResult: the record handed to both stores (it has no id)
resultToSaveStaleAverages(result) ==
    [url        |-> result.url,
     timestamp  |-> normalizeTimestamp(result.timestamp),
     routes     |-> result.routes,
     results    |-> result.results,
     domain     |-> extractDomain(result.url),
     avg_scores |-> calculateAverageScores(SubSeq(result.results, 1, 1))]
resultToSave(result) ==
    [url        |-> result.url,
     timestamp  |-> normalizeTimestamp(result.timestamp),
     routes     |-> result.routes,
     results    |-> result.results,
     domain     |-> extractDomain(result.url),
     avg_scores |-> calculateAverageScores(result.results)]

\* { ...record, id }
WithId(rec, id) ==
    [url |-> rec.url, timestamp |-> rec.timestamp, routes |-> rec.routes,
     results |-> rec.results, domain |-> rec.domain,
     avg_scores |-> rec.avg_scores, id |-> id]

Min(a, b) == IF a < b THEN a ELSE b

\* history.slice(0, n)
Slice0(history, n) == SubSeq(history, 1, Min(n, Len(history)))

\* LighthouseStorage.saveToLocalStorage: the list it writes; history is the
\* parsed "lighthouse-history" (<<>> when the key is absent), clock is Date.now()
saveToLocalStorageFreshId(history, result, clock) ==
    <<WithId(result, ToString(clock))>> \o Slice0(history, KeepOld)
saveToLocalStorageOffByOne(history, result, clock) ==
    LET resultWithId ==
            WithId(result, IF "id" \in DOMAIN result THEN result.id ELSE ToString(clock))
    IN  <<resultWithId>> \o Slice0(history, KeepOld + 1)
saveToLocalStorage(history, result, clock) ==
    LET resultWithId ==
            WithId(result, IF "id" \in DOMAIN result THEN result.id ELSE ToString(clock))
    IN  <<resultWithId>> \o Slice0(history, KeepOld)

(***************************************************************************)
(* The remote table lighthouse_results (supabase/migrations): id is a uuid *)
(* the database generates, timestamp is a timestamptz, results is jsonb,   *)
(* which keeps the keys of an object sorted and not in insertion order.    *)
(* The model holds a row as the client receives it.                        *)
(***************************************************************************)
PathRank(p) == CHOOSE i \in 1..Len(Paths) : Paths[i] = p

\* a jsonb object: the same entries, ordered by key
Jsonb(obj) ==
    LET ranks == { PathRank(obj[i].path) : i \in 1..Len(obj) }
        RECURSIVE Sorted(_)
        Sorted(rs) ==
            IF rs = {} THEN <<>>
            ELSE LET r == CHOOSE x \in rs : \A y \in rs : x <= y
                     e == CHOOSE k \in 1..Len(obj) : PathRank(obj[k].path) = r
                 IN  <<obj[e]>> \o Sorted(rs \ {r})
    IN  Sorted(ranks)

\* the object the client parses from the text of a jsonb object: the entries
\* are set in the order of the text, and the object enumerates them as every
\* JavaScript object does
RECURSIVE JsonParse(_)
JsonParse(text) ==
    IF text = <<>> THEN <<>>
    ELSE LET last == text[Len(text)]
         IN  ObjSet(JsonParse(SubSeq(text, 1, Len(text) - 1)), last.path, last.metrics)

\* the row insert([resultToSave]).select().single() gives back, as the client
\* holds it
RemoteRow(rec, uuid) ==
    [url |-> rec.url,
     timestamp |-> [repr |-> "pgOffset", ms |-> rec.timestamp.ms],
     routes |-> rec.routes, results |-> JsonParse(Jsonb(rec.results)), domain |-> rec.domain,
     avg_scores |-> rec.avg_scores, id |-> uuid]

\* gen_random_uuid(): the n-th id the database generates
Uuid(n) == "uuid-" \o ToString(n)

VARIABLES
    supabase,       \* TRUE iff the Supabase client was created (credentials set)
    failures,       \* inserts the remote store has refused and setItem calls that have thrown
    remote,         \* rows of the table lighthouse_results, oldest first
    localHistory,   \* localStorage["lighthouse-history"], <<>> when the key is absent
    now,            \* Date.now()
    uuids,          \* ids the database has generated
    runPc,          \* runPerformanceTest: "idle", "audit", "delay", "saving", "done"
    runs,           \* runs started so far
    routes,         \* the run's routes
    routeIdx,       \* i of the loop, 1-based
    results,        \* the run's results object
    inFlight,       \* audit calls awaiting their response
    auditLog,       \* audit calls started and ended, in order
    delays,         \* route indexes after whose audit the 1000 ms delay was waited
    runInput,       \* the argument of the run's pending saveResult call
    migPc,          \* migrateLocalStorageData: "testing", "loop", "done"
    migTest,        \* what testConnection reported: "pending", "success", "failure"
    migList,        \* localResults, the list the migration read
    migIdx,         \* the entry of migList whose saveResult call is pending
    migLog,         \* the saveResult calls the migration has made
    loads,          \* page loads after the first
    ticks,          \* clock ticks that passed on their own
    saveRet,        \* how the last saveResult call ended
    persisted,      \* timestamps (ms) of the runs saveResult has returned a record for
    avgArg,         \* the results mapping last handed to calculateAverageScores
    avgRes,         \* what it returned
    error,          \* App's error state: <<>> is null, else <<message>>
    step,           \* App's step state: 1..3 the set-up screens, 4 the results
    remoteOps,      \* the kinds of request this page load has sent to Supabase
    readReq,        \* the read of the store awaiting its answer: <<>> or <<call>>
    readRet,        \* the last read of the store that returned: the call and its result
    baseUrl,        \* App's baseUrl state: <<>> is the empty text
    apiKey,         \* TRUE iff VITE_PAGESPEED_API_KEY is set
    hasApiKey,      \* App's hasApiKey state
    rawResponse,    \* the response last handed to parsePageSpeedResults, <<>> before
    parsed,         \* how that call ended
    showHistory,    \* App's showHistory state
    showComparison, \* App's showComparison state
    comparisonResults, \* App's comparisonResults state
    loadedResult,   \* the record loadHistoryResult last made the current result, <<>> before
    histResults,    \* HistoryView's results state
    domains,        \* HistoryView's domains state
    selectedDomain, \* HistoryView's selectedDomain state: <<>> is '', else <<domain>>
    histLoading,    \* HistoryView's loading state
    selectedResults, \* HistoryView's selectedResults state, a set of ids
    compareMode,    \* HistoryView's compareMode state
    pendingLoads    \* the loadData calls awaiting answers: the domain, and the answers so far

storeVars == <<supabase, failures, remote, localHistory, now, uuids, saveRet, persisted>>
runVars   == <<runPc, runs, routes, routeIdx, results, inFlight, auditLog, delays, runInput>>
migVars   == <<migPc, migTest, migList, migIdx, migLog>>
avgVars   == <<avgArg, avgRes>>
uiVars    == <<error, step>>
readVars  == <<readReq, readRet>>
setupVars == <<baseUrl, apiKey, hasApiKey>>
parseVars == <<rawResponse, parsed>>
viewVars  == <<histResults, domains, selectedDomain, histLoading, selectedResults, compareMode,
              pendingLoads>>
histVars  == <<showHistory, showComparison, comparisonResults, loadedResult, viewVars>>
vars      == <<storeVars, runVars, migVars, loads, ticks, avgVars, uiVars, remoteOps, readVars,
              setupVars, parseVars, histVars>>

\* if (supabase) { ... } : a request is sent only when the client exists
Attempts(configured) == configured

\* the message runPerformanceTest sets when saveResult raises
SaveWarning == "Warning: Results saved locally only. Database connection failed."

\* parsePageSpeedResults has not been called
NoParse == [raised |-> FALSE, metrics |-> <<>>]

\* no read of the store has been made
NoRead == [op |-> "none", arg |-> <<>>, served |-> "none", value |-> <<>>]

(***************************************************************************)
(* LighthouseStorage.saveResult, from the response of the insert on: what  *)
(* it leaves in the two stores and how it ends.  insertOk: the insert      *)
(* returned no error; lsOk: the first saveToLocalStorage call of the       *)
(* saveResult call does not throw (localStorage.setItem throws when the    *)
(* quota is exceeded or storage is disabled, and then writes nothing);     *)
(* retryOk: nor does the second, which the catch block makes with the      *)
(* record without the row's id when the backup write after an insert has   *)
(* thrown (a shorter list, which may fit where the first did not).         *)
(***************************************************************************)
Returned(rem, hist, n, inserted, rec) ==
    [remote |-> rem, history |-> hist, uuids |-> n, inserted |-> inserted,
     raised |-> FALSE, value |-> <<rec>>]

Raised(rem, hist, n, inserted) ==
    [remote |-> rem, history |-> hist, uuids |-> n, inserted |-> inserted,
     raised |-> TRUE, value |-> <<>>]

\* the catch block and the else branch: return this.saveToLocalStorage(resultToSave)
LocalOnly(rem, hist, n, inserted, rec, clock, lsOk) ==
    IF lsOk
    THEN LET h == saveToLocalStorage(hist, rec, clock)
         IN  Returned(rem, h, n, inserted, h[1])
    ELSE Raised(rem, hist, n, inserted)

\* insert([resultToSave]): the table afterwards
RemoteInsertReplacing(rem, row) == <<row>>
RemoteInsert(rem, row) == Append(rem, row)

saveResult(result, clock, rem, hist, n, configured, insertOk, lsOk, retryOk) ==
    LET rec == resultToSave(result) IN
    IF ~configured THEN LocalOnly(rem, hist, n, FALSE, rec, clock, lsOk)
    ELSE IF ~insertOk THEN LocalOnly(rem, hist, n, FALSE, rec, clock, lsOk)
    ELSE LET data == RemoteRow(rec, Uuid(n + 1))
             rem2 == RemoteInsert(rem, data)
         IN  IF lsOk
             THEN Returned(rem2, saveToLocalStorage(hist, WithId(rec, data.id), clock),
                           n + 1, TRUE, data)
             ELSE LocalOnly(rem2, hist, n + 1, TRUE, rec, clock, retryOk)

\* LighthouseStorage.getResultByIdFromLocalStorage: history.find(r => r.id === id) || null
getResultByIdFromLocalStorage(id, hist) ==
    LET hits == { i \in 1..Len(hist) : hist[i].id = id }
    IN  IF hits = {} THEN <<>>
        ELSE <<hist[CHOOSE i \in hits : \A j \in hits : i <= j]>>

\* LighthouseStorage.getResultById: <<>> is null.  lookupOk: the query was
\* answered; .single() reports an error when no row has the id
getResultByIdRemoteOnly(id, rem, hist, configured, lookupOk) ==
    LET rows == { i \in 1..Len(rem) : rem[i].id = id }
    IN  IF configured /\ lookupOk /\ rows # {}
        THEN <<rem[CHOOSE i \in rows : TRUE]>>
        ELSE <<>>
getResultById(id, rem, hist, configured, lookupOk) ==
    LET rows == { i \in 1..Len(rem) : rem[i].id = id }
    IN  IF configured /\ lookupOk /\ rows # {}
        THEN <<rem[CHOOSE i \in rows : TRUE]>>
        ELSE getResultByIdFromLocalStorage(id, hist)

\* the stores and the record of the call after a saveResult call that ended as o
Saved(caller, result, o) ==
    /\ remote' = o.remote
    /\ uuids' = o.uuids
    /\ saveRet' = [seq |-> saveRet.seq + 1, caller |-> caller, input |-> <<result>>,
                   inserted |-> o.inserted, raised |-> o.raised, value |-> o.value]
    /\ persisted' = IF o.raised THEN persisted ELSE persisted \cup {result.timestamp.ms}

(***************************************************************************)
(* Inputs.                                                                 *)
(***************************************************************************)
BaseUrl == <<"https://", "example.com">>

\* the same address typed with a slash at its end
BaseUrlSlash == <<"https://", "example.com", "/">>

\* what the user may have typed into the base URL field before a run
BaseUrls == {BaseUrl, BaseUrlSlash}

\* "httpexample.com": it passes the form's startsWith('http') test and
\* new URL() throws on it
SchemelessUrl == <<"http", "example.com">>

\* the text of a route path, as tokens: "1" is a path typed without the slash
PathTokens(p) == IF p = "/" THEN <<"/">>
                 ELSE IF p = "1" THEN <<"1">>
                 ELSE IF p = "/a" THEN <<"/", "a">>
                 ELSE <<"/", "b">>

\* baseUrl.replace(/\/$/, '')
StripTrailingSlash(url) ==
    IF url # <<>> /\ url[Len(url)] = "/" THEN SubSeq(url, 1, Len(url) - 1) ELSE url

\* runPerformanceTest: `${baseUrl.replace(/\/$/, '')}${route.path}`
fullUrl(base, path) == StripTrailingSlash(base) \o PathTokens(path)

\* routeType === 'all'
HomeRoute == [id |-> "1", path |-> "/", name |-> "Home Page"]

\* addCustomRoute: the id is Date.now().toString(); ms numbers the
\* milliseconds in which "Add Route" was clicked
addCustomRoute(customRoutes, ms) ==
    Append(customRoutes,
           [id |-> "r" \o ToString(ms), path |-> "",
            name |-> "Route " \o ToString(Len(customRoutes) + 1)])

\* updateCustomRoute: every route with the id gets the value
updateCustomRoute(customRoutes, id, field, value) ==
    [i \in 1..Len(customRoutes) |->
        IF customRoutes[i].id = id
        THEN [customRoutes[i] EXCEPT ![field] = value]
        ELSE customRoutes[i]]

\* removeCustomRoute
removeCustomRoute(customRoutes, id) == SelectSeq(customRoutes, LAMBDA r : r.id # id)

\* the j-th custom route the user added, in the j-th millisecond, with the
\* path typed for it
CustomRoute(j, p) ==
    [id |-> "r" \o ToString(j), path |-> p, name |-> "Route " \o ToString(j)]


\* the k-th run of earlier page loads: the home route, and every second time
\* two custom routes of which the second failed
OldRun(k) ==
    IF k % 2 = 1
    THEN [url |-> BaseUrl, timestamp |-> [repr |-> "number", ms |-> k],
          routes |-> <<HomeRoute>>,
          results |-> <<[path |-> "/", metrics |-> AuditMetrics(61, 70, 83, 0)]>>]
    ELSE [url |-> BaseUrl, timestamp |-> [repr |-> "number", ms |-> k],
          routes |-> <<CustomRoute(1, "/b"), CustomRoute(2, "/a")>>,
          results |-> <<[path |-> "/b", metrics |-> AuditMetrics(81, 90, 100, 99)],
                        [path |-> "/a", metrics |-> ZeroMetrics]>>]

\* what earlier page loads left in localStorage while the remote store was not
\* reachable: k runs, saved one per millisecond
RECURSIVE OldHistory(_)
OldHistory(k) ==
    IF k = 0 THEN <<>>
    ELSE saveToLocalStorage(OldHistory(k - 1), resultToSave(OldRun(k)), k)

\* lengths of the list the first page load finds
PreFills == {0, 2}

NoSave == [seq |-> 0, caller |-> "none", input |-> <<>>, inserted |-> FALSE,
           raised |-> FALSE, value |-> <<>>]

\* HistoryView is not mounted: its state does not exist
Unmounted ==
    /\ histResults = <<>> /\ domains = <<>> /\ selectedDomain = <<>>
    /\ histLoading = FALSE /\ selectedResults = {} /\ compareMode = FALSE
    /\ pendingLoads = <<>>

\* neither the history view nor the comparison view has been opened
HistoryClosed ==
    /\ showHistory = FALSE /\ showComparison = FALSE /\ comparisonResults = <<>>
    /\ loadedResult = <<>>
    /\ Unmounted

RunIdle ==
    /\ runPc = "idle" /\ runs = 0 /\ routes = <<>> /\ routeIdx = 0 /\ results = <<>>
    /\ inFlight = 0 /\ auditLog = <<>> /\ delays = {} /\ runInput = <<>>

\* a page load that finds k old records in localStorage
InitWith(k) ==
    /\ supabase \in BOOLEAN
    /\ failures = 0
    /\ remote = <<>>
    /\ localHistory = OldHistory(k)
    /\ now = KeepOld + 2
    /\ uuids = 0
    /\ saveRet = NoSave
    /\ persisted = { localHistory[i].timestamp.ms : i \in 1..Len(localHistory) }
    /\ RunIdle
    /\ loads = 0 /\ ticks = 0
    /\ avgArg = <<>> /\ avgRes = calculateAverageScores(<<>>)
    /\ error = <<>> /\ step = 1
    /\ remoteOps = IF Attempts(supabase) THEN {"testConnection"} ELSE {}
    /\ readReq = <<>> /\ readRet = NoRead
    /\ rawResponse = <<>> /\ parsed = NoParse
    /\ HistoryClosed

\* the effect of the page load has called testConnection
MigStarted ==
    /\ migPc = "testing" /\ migTest = "pending" /\ migList = <<>> /\ migIdx = 0
    /\ migLog = <<>>

\* the effect of the page load has set hasApiKey from the environment, which
\* holds a PageSpeed API key
KeyConfigured == apiKey = TRUE /\ hasApiKey = apiKey /\ baseUrl = <<>>

\* the same, in an environment with or without a key
KeyChecked == apiKey \in BOOLEAN /\ hasApiKey = apiKey /\ baseUrl = <<>>

Init == \E k \in PreFills : InitWith(k) /\ MigStarted /\ KeyConfigured

\* the same program on a page load that finds the list full, or one short of full
InitFull == \E k \in {KeepOld, KeepOld + 1} : InitWith(k) /\ MigStarted /\ KeyConfigured

(***************************************************************************)
(* The environment.  Each insert is accepted or refused by the remote      *)
(* store and each localStorage.setItem call takes the write or throws      *)
(* (quota exceeded, storage disabled) on its own.                          *)
(***************************************************************************)
\* the environment has events left
Budget == runs + loads + ticks + failures < MaxEvents

\* the environment refuses k times in the step
Refuses(k) ==
    /\ runs + loads + ticks + failures + k <= MaxEvents
    /\ failures' = failures + k

\* the setItem calls of a saveResult call that throw: the one write of the
\* local branch; after an insert the backup write, and then the second
\* write the catch block makes
Thrown(inserted, lsOk, retryOk) ==
    IF lsOk THEN 0 ELSE IF inserted /\ ~retryOk THEN 2 ELSE 1

\* an answer is drawn only for a write the call makes
WritesMade(inserted, lsOk, retryOk) == retryOk => (inserted /\ ~lsOk)

(***************************************************************************)
(* runPerformanceTest, after the loop (App.tsx 245-275): newResult is      *)
(* built and saveResult is called.  With no Supabase client saveResult     *)
(* has no suspension point and ends in the same step (lsOk: its setItem    *)
(* call does not throw).                                                   *)
(***************************************************************************)
CallSaveResult(url, rs, res, clock, lsOk) ==
    LET newResult == [url |-> url, timestamp |-> [repr |-> "number", ms |-> clock],
                      routes |-> rs, results |-> res]
    IN  IF Attempts(supabase)
        THEN /\ lsOk
             /\ runPc' = "saving"
             /\ runInput' = <<newResult>>
             /\ remoteOps' = remoteOps \cup {"insert"}
             /\ error' = <<>>
             /\ UNCHANGED <<failures, remote, localHistory, uuids, saveRet, persisted, step>>
        ELSE LET o == saveResult(newResult, clock, remote, localHistory, uuids,
                                 FALSE, FALSE, lsOk, FALSE)
             IN  /\ Refuses(Thrown(FALSE, lsOk, FALSE))
                 /\ runPc' = "done"
                 /\ runInput' = <<>>
                 /\ localHistory' = o.history
                 /\ Saved("run", newResult, o)
                 /\ error' = IF o.raised THEN <<SaveWarning>> ELSE <<>>
                 /\ step' = 4
                 /\ UNCHANGED remoteOps

\* the remote store has answered the insert of a saveResult call, and
\* localStorage the writes the call then makes
SaveAnswers(insertOk, lsOk, retryOk) ==
    /\ WritesMade(insertOk, lsOk, retryOk)
    /\ Refuses((IF insertOk THEN 0 ELSE 1) + Thrown(insertOk, lsOk, retryOk))

\* the insert of the run's saveResult call has answered
RunSaveReturns ==
    \E insertOk \in BOOLEAN, lsOk \in BOOLEAN, retryOk \in BOOLEAN :
        /\ runPc = "saving"
        /\ SaveAnswers(insertOk, lsOk, retryOk)
        /\ LET o == saveResult(runInput[1], now, remote, localHistory, uuids,
                               TRUE, insertOk, lsOk, retryOk)
           IN  /\ localHistory' = o.history
               /\ Saved("run", runInput[1], o)
               /\ error' = IF o.raised THEN <<SaveWarning>> ELSE error
        /\ step' = 4
        /\ runPc' = "done"
        /\ runInput' = <<>>
        /\ UNCHANGED <<supabase, now, runs, routes, routeIdx, results,
                       inFlight, auditLog, delays, migVars, loads, ticks, avgVars, parseVars, histVars, setupVars,
                       remoteOps, readVars>>

(***************************************************************************)
(* migrateLocalStorageData (App.tsx 63-98), run by the effect of every     *)
(* page load.                                                              *)
(***************************************************************************)
\* testConnection: success needs the client and an answer without error
testConnection(configured, probeOk) == configured /\ probeOk

\* if (connectionResult.success) { ... if (localHistory) { for ... } }: the
\* loop over the local list starts
MigStartsLoopAnyway(success, history) == history # <<>>
MigStartsLoop(success, history) == success /\ history # <<>>

\* testConnection has answered; on success the list is read and the first
\* saveResult call is made
MigTested ==
    \E probeOk \in BOOLEAN :
        /\ migPc = "testing"
        /\ LET success == testConnection(supabase, probeOk)
           IN  /\ migTest' = IF success THEN "success" ELSE "failure"
               /\ IF MigStartsLoop(success, localHistory)
                  THEN /\ migPc' = "loop" /\ migList' = localHistory /\ migIdx' = 1
                       /\ remoteOps' = remoteOps \cup {"insert"}
                  ELSE /\ migPc' = "done" /\ migList' = <<>> /\ migIdx' = 0
                       /\ UNCHANGED remoteOps
        /\ UNCHANGED <<storeVars, runVars, migLog, loads, ticks, avgVars, parseVars, histVars, setupVars,
                       uiVars, readVars>>

\* the argument of the migration's saveResult call for an entry of the list
MigArgument(entry) ==
    [url |-> entry.url, timestamp |-> entry.timestamp, routes |-> entry.routes,
     results |-> entry.results]

\* for (const result of localResults) { try { await saveResult } catch { log } }:
\* the entry after entry idx, whether its saveResult call raised or not
MigNextIdxStopOnFailure(idx, n, inserted) == IF inserted THEN idx + 1 ELSE n + 1
MigNextIdx(idx, n, inserted) == idx + 1

\* localStorage.removeItem('lighthouse-history') after the loop
RemoveItem(history, log) == <<>>

\* the insert for entry migIdx has answered: saveResult ends, and either the
\* next call is made or the loop ends and the list is removed
MigItem ==
    \E insertOk \in BOOLEAN, lsOk \in BOOLEAN, retryOk \in BOOLEAN :
        /\ migPc = "loop"
        /\ SaveAnswers(insertOk, lsOk, retryOk)
        /\ LET arg  == MigArgument(migList[migIdx])
               o    == saveResult(arg, now, remote, localHistory, uuids,
                                  TRUE, insertOk, lsOk, retryOk)
               next == MigNextIdx(migIdx, Len(migList), o.inserted)
               log  == Append(migLog, [arg |-> arg, inserted |-> o.inserted,
                                       gained |-> Len(o.remote) - Len(remote)])
           IN  /\ Saved("migration", arg, o)
               /\ migLog' = log
               /\ migIdx' = next
               /\ IF next > Len(migList)
                  THEN migPc' = "done" /\ localHistory' = RemoveItem(o.history, log)
                  ELSE migPc' = "loop" /\ localHistory' = o.history
        /\ UNCHANGED <<supabase, now, runVars, migTest, migList, loads,
                       ticks, avgVars, parseVars, histVars, setupVars, uiVars, remoteOps, readVars>>

\* currentResult is set at the end of a run and by loadHistoryResult, and
\* cleared by resetTool
HasCurrentResult == runPc = "done" \/ loadedResult # <<>>

\* resetTool: "New Test" on the results screen, which shows the result of a
\* run or a record loaded from the history, and "Try Again" on the error
\* screen
ResetTool ==
    /\ runPc \in {"idle", "done"}
    /\ ~showHistory /\ ~showComparison
    /\ error # <<>> \/ (step = 4 /\ HasCurrentResult)
    /\ runPc' = "idle" /\ routes' = <<>> /\ routeIdx' = 0 /\ results' = <<>>
    /\ inFlight' = 0 /\ auditLog' = <<>> /\ delays' = {} /\ runInput' = <<>>
    /\ step' = 1 /\ error' = <<>>
    /\ baseUrl' = <<>>
    /\ showHistory' = FALSE /\ showComparison' = FALSE /\ comparisonResults' = <<>>
    /\ loadedResult' = <<>>
    /\ UNCHANGED <<storeVars, runs, migVars, loads, ticks, avgVars, parseVars, viewVars,
                   apiKey, hasApiKey, remoteOps, readVars>>

\* the page is loaded again: the stores stay, the state of the components
\* is initial again, the effect runs again
Reload ==
    /\ Budget
    /\ loads' = loads + 1
    /\ runPc' = "idle" /\ routes' = <<>> /\ routeIdx' = 0 /\ results' = <<>>
    /\ inFlight' = 0 /\ auditLog' = <<>> /\ delays' = {} /\ runInput' = <<>>
    /\ migPc' = "testing" /\ migTest' = "pending" /\ migList' = <<>> /\ migIdx' = 0
    /\ migLog' = <<>>
    /\ step' = 1 /\ error' = <<>>
    /\ remoteOps' = IF Attempts(supabase) THEN {"testConnection"} ELSE {}
    /\ readReq' = <<>> /\ readRet' = NoRead
    /\ baseUrl' = <<>>
    /\ hasApiKey' = apiKey
    /\ showHistory' = FALSE /\ showComparison' = FALSE /\ comparisonResults' = <<>>
    /\ loadedResult' = <<>>
    /\ histResults' = <<>> /\ domains' = <<>> /\ selectedDomain' = <<>>
    /\ selectedResults' = {} /\ compareMode' = FALSE
    /\ histLoading' = FALSE
    /\ pendingLoads' = <<>>
    /\ UNCHANGED <<supabase, failures, remote, localHistory, now, uuids, saveRet,
                   persisted, runs, ticks, avgVars, parseVars, apiKey>>

\* a millisecond passes
Tick ==
    /\ Budget
    /\ ticks' = ticks + 1
    /\ now' = now + 1
    /\ UNCHANGED <<supabase, failures, remote, localHistory, uuids,
                   saveRet, persisted, runVars, migVars, loads, avgVars, parseVars, histVars, setupVars, uiVars,
                   remoteOps, readVars>>


(***************************************************************************)
(* runPerformanceTest, the loop over the routes with the PageSpeed API     *)
(* (App.tsx 153-211).  An audit call that sends its request takes at least *)
(* a millisecond; one that throws before the request takes no time.        *)
(***************************************************************************)
\* what an audit call that succeeds may give
AuditOutcomes == { AuditMetrics(80, 91, 75, 100), AuditMetrics(81, 90, 100, 99) }

\* routes of a run: the home route, or the custom routes with a non-blank
\* path (two routes may have the same path)
RECURSIVE CustomLists(_)
CustomLists(n) ==
    IF n = 0 THEN { <<>> }
    ELSE { Append(l, CustomRoute(n, Paths[p])) :
             l \in CustomLists(n - 1), p \in 1..Len(Paths) }


\* the record of the mock branch (App.tsx 225-234): eight fields, fcp and
\* lcp in seconds
MockMetrics(p, a, b, s, fcp, lcp, cls, fid) ==
    [performance |-> p, accessibility |-> a, bestPractices |-> b, seo |-> s,
     fcp |-> fcp, lcp |-> lcp, cls |-> cls, fid |-> fid]

\* Math.floor(Math.random() * 30) + 70, Math.random() * 1.5 + 1.2 and the
\* like: the smallest record the branch can produce, and the largest to three
\* decimals
MockOutcomes ==
    { MockMetrics(70, 80, 75, 80, 1200, 2500, 0, 50 * One),
      MockMetrics(99, 99, 99, 99, 2699, 4499, 99, 99999) }

\* an entry of the log for route i of the list rs: analyzeUrlWithFullData is
\* called with the full URL; it throws before any request when API_KEY is
\* not set (sent: the request went out to the PageSpeed API)
AuditEvent(ev, i, ok, rs, base, key) ==
    [ev |-> ev, i |-> i, ok |-> ok, url |-> fullUrl(base, rs[i].path), sent |-> key]

\* the call of analyzeUrlWithFullData for route i is made
StartAudit(i) ==
    /\ routeIdx' = i
    /\ inFlight' = inFlight + 1
    /\ auditLog' = Append(auditLog, AuditEvent("start", i, TRUE, routes, baseUrl, apiKey))
    /\ runPc' = "audit"

\* if (!hasApiKey && step === 1) return <the set-up notice>: the form of step
\* 1, the only way to steps 2 and 3 and their "Run Test" buttons, is rendered
\* only when hasApiKey is set
UiPastStepOne == hasApiKey

\* "Continue with Current Setup" on the set-up notice: setHasApiKey(true)
ContinueSetup ==
    /\ ~hasApiKey /\ step = 1 /\ runPc = "idle"
    /\ hasApiKey' = TRUE
    /\ UNCHANGED <<storeVars, runVars, migVars, loads, ticks, avgVars, parseVars, histVars, uiVars,
                   remoteOps, readVars, baseUrl, apiKey>>

\* route.path.trim() is empty
Blank(p) == p \in {"", " "}

\* lists the form gives after routes were left blank, removed, added within
\* one millisecond, or renamed
EditedLists ==
    LET one   == addCustomRoute(<<>>, 1)
        two   == addCustomRoute(one, 2)
        typed == updateCustomRoute(updateCustomRoute(two, "r1", "path", "/a"),
                                   "r2", "path", "/b")
        gap   == removeCustomRoute(
                     updateCustomRoute(addCustomRoute(typed, 3), "r3", "path", "/"), "r2")
    IN  { \* the first route left blank
          updateCustomRoute(two, "r2", "path", "/a"),
          \* the second of three routes removed
          gap,
          \* and one more added: the third is "Route 3" as well
          updateCustomRoute(addCustomRoute(gap, 4), "r4", "path", "1"),
          \* two routes added in one millisecond have one id, and a path typed
          \* for either goes to both
          updateCustomRoute(addCustomRoute(one, 1), "r1", "path", "/a"),
          \* a route renamed
          updateCustomRoute(updateCustomRoute(one, "r1", "path", "/a"),
                            "r1", "name", "Docs") }

\* what the user has made of customRoutes: routes with a path, and possibly
\* one more route, added last, whose path was left blank; and the lists above
CustomRouteInputs ==
    UNION { { l : l \in CustomLists(n) }
              \cup { Append(l, CustomRoute(n + 1, p)) : l \in CustomLists(n), p \in {"", " "} } :
            n \in 0..MaxRoutes }
      \cup EditedLists

\* customRoutes.filter(route => route.path.trim())
NonBlank(cr) == SelectSeq(cr, LAMBDA r : ~Blank(r.path))

\* the routes of the run
RoutesOfRun(routeType, cr) == IF routeType = "all" THEN <<HomeRoute>> ELSE NonBlank(cr)

\* the button that calls runPerformanceTest can be clicked: "Run Test" of step
\* 2 when routeType is 'all', "Run Test" of step 3, which is disabled while
\* no custom route has a path, when it is 'custom'
RunEnabledAlways(routeType, cr) == TRUE
RunEnabled(routeType, cr) == routeType = "all" \/ Len(NonBlank(cr)) # 0

\* baseUrl.startsWith('http'): the first token begins with these characters
StartsWithHttp(url) == url # <<>> /\ url[1] \in Schemes \cup {"http"}

\* the form of step s is on the screen: no comparison, no history, no set-up
\* notice, no run under way, no error, and not the results
WizardShown(s) ==
    /\ runPc = "idle"
    /\ UiPastStepOne
    /\ ~showHistory /\ ~showComparison
    /\ error = <<>>
    /\ step = s

\* what the user may type into the base URL field: an address, a text that
\* starts with http and has no scheme, a host alone, and <<>> when they clear
\* the field
UrlTexts == BaseUrls \cup {SchemelessUrl, <<"example.com">>, <<>>}

\* the field of step 1 is edited: setBaseUrl(e.target.value)
TypeUrlFrom(texts) ==
    \E t \in texts :
        /\ WizardShown(1)
        /\ t # baseUrl
        /\ baseUrl' = t
        /\ UNCHANGED <<storeVars, runVars, migVars, loads, ticks, avgVars, parseVars, histVars,
                       uiVars, remoteOps, readVars, apiKey, hasApiKey>>

TypeUrl == TypeUrlFrom(UrlTexts)

\* the same field, when the sample address is typed
TypeUrlSample == TypeUrlFrom({BaseUrl})

\* a button of the form that only moves to another step
GoToStep(from, to) ==
    /\ WizardShown(from)
    /\ step' = to
    /\ UNCHANGED <<storeVars, runVars, migVars, loads, ticks, avgVars, parseVars, histVars,
                   error, remoteOps, readVars, setupVars>>

\* "Continue" of step 1, disabled while the text is empty or does not start
\* with http
StepContinue == StartsWithHttp(baseUrl) /\ GoToStep(1, 2)

\* "Back" of step 2
BackToUrl == GoToStep(2, 1)

\* "Continue" of step 2 when routeType is 'custom'
ContinueCustom == GoToStep(2, 3)

\* "Back" of step 3
BackToSettings == GoToStep(3, 2)

\* the "Run Test" button of step 2 (routeType 'all') or of step 3 ('custom'):
\* the routes were chosen, and the loop starts with the first route; with no
\* route the loop is skipped and the empty results are saved
RunStartFrom(inputs) ==
    \E inp \in inputs, lsOk \in BOOLEAN :
      LET routeType == inp.routeType
          cr        == inp.cr
          base      == baseUrl
      IN
        /\ WizardShown(IF routeType = "all" THEN 2 ELSE 3)
        /\ routeType = "all" => cr = <<>>
        /\ RunEnabled(routeType, cr)
        /\ Budget
        /\ runs' = runs + 1
        /\ results' = <<>>
        /\ delays' = {}
        /\ LET rs == RoutesOfRun(routeType, cr)
           IN  /\ routes' = rs
               /\ IF rs = <<>>
                  THEN /\ auditLog' = <<>>
                       /\ inFlight' = 0
                       /\ routeIdx' = 0
                       /\ CallSaveResult(base, rs, <<>>, now, lsOk)
                  ELSE /\ lsOk
                       /\ IF hasApiKey
                          THEN /\ auditLog' = <<AuditEvent("start", 1, TRUE, rs, base, apiKey)>>
                               /\ inFlight' = 1
                          ELSE /\ auditLog' = <<>>
                               /\ inFlight' = 0
                       /\ routeIdx' = 1
                       /\ runPc' = "audit"
                       /\ error' = <<>>
                       /\ UNCHANGED <<failures, remote, localHistory, uuids, saveRet,
                                      persisted, runInput, remoteOps, step>>
        /\ UNCHANGED <<supabase, now, migVars, loads, ticks, avgVars,
                       parseVars, histVars, setupVars, readVars>>

\* what routeType and customRoutes may hold when "Run Test" is clicked
RunInputs ==
    { [routeType |-> t, cr |-> c] : t \in {"all", "custom"}, c \in CustomRouteInputs }

\* one of them: two custom routes
SampleRoutes == <<CustomRoute(1, "/b"), CustomRoute(2, "/a")>>

RunStart == RunStartFrom(RunInputs)

\* the same button, with the form filled in the sample way
RunStartSample == RunStartFrom({ [routeType |-> "custom", cr |-> SampleRoutes] })

\* results[route.path] = metrics in the try block, the all-zero record in the catch block
RecordedSkippingFailed(res, path, ok, metrics) ==
    IF ok THEN ObjSet(res, path, metrics) ELSE res
Recorded(res, path, ok, metrics) ==
    ObjSet(res, path, IF ok THEN metrics ELSE ZeroMetrics)

\* if (i < routes.length - 1) await setTimeout(1000), which is in the try
\* block after the audit call: i is the 1-based index of the route audited
DelayAfter(ok, i, n) == ok /\ i < n

\* i++ of the for loop
NextRoute(i) == i + 1

\* the time an audit call takes: with no key in the environment it throws
\* before a request is sent
AuditTime(asked, key) == IF asked /\ ~key THEN 0 ELSE 1

\* the step of route routeIdx has ended.  With hasApiKey: the audit call has
\* ended, with metrics or with an error (always an error when no key is
\* set).  Without: the 2000 ms of the mock branch are over and the mock record
\* is stored; that branch has no audit call and no delay between routes.
AuditReturnsWith(outcomes, answers) ==
    \E ok \in answers, metrics \in outcomes \cup MockOutcomes, lsOk \in BOOLEAN :
        /\ runPc = "audit"
        /\ IF hasApiKey
           THEN /\ metrics \in outcomes
                /\ ok => apiKey
                /\ ok \/ metrics = CHOOSE m \in outcomes : TRUE
           ELSE ok /\ metrics \in MockOutcomes
        /\ now' = now + AuditTime(hasApiKey, apiKey)
        /\ LET n   == Len(routes)
               res == Recorded(results, routes[routeIdx].path, ok, metrics)
               log == IF hasApiKey
                      THEN Append(auditLog,
                                  AuditEvent("end", routeIdx, ok, routes, baseUrl, apiKey))
                      ELSE auditLog
               out == IF hasApiKey THEN 1 ELSE 0
           IN  /\ results' = res
               /\ IF hasApiKey /\ DelayAfter(ok, routeIdx, n)
                  THEN /\ lsOk
                       /\ runPc' = "delay"
                       /\ auditLog' = log
                       /\ inFlight' = inFlight - 1
                       /\ UNCHANGED <<routeIdx, runInput, failures, remote, localHistory,
                                      uuids, saveRet, persisted, uiVars, remoteOps>>
                  ELSE IF NextRoute(routeIdx) <= n
                  THEN /\ lsOk
                       /\ runPc' = "audit"
                       /\ routeIdx' = NextRoute(routeIdx)
                       /\ inFlight' = inFlight
                       /\ auditLog' = IF hasApiKey
                                      THEN Append(log, AuditEvent("start", NextRoute(routeIdx),
                                                                  TRUE, routes, baseUrl, apiKey))
                                      ELSE log
                       /\ UNCHANGED <<runInput, failures, remote, localHistory, uuids,
                                      saveRet, persisted, uiVars, remoteOps>>
                  ELSE /\ auditLog' = log
                       /\ inFlight' = inFlight - out
                       /\ UNCHANGED routeIdx
                       /\ CallSaveResult(baseUrl, routes, res,
                                         now + AuditTime(hasApiKey, apiKey), lsOk)
        /\ UNCHANGED <<supabase, runs, routes, delays, migVars,
                       loads, ticks, avgVars, parseVars, histVars, setupVars, readVars>>

AuditReturns == AuditReturnsWith(AuditOutcomes, BOOLEAN)

\* the same step, when the API answers for every page, with the same scores
AuditReturnsSample == AuditReturnsWith({ AuditMetrics(80, 91, 75, 100) }, {TRUE})

\* the 1000 ms are over: the next audit call is made
DelayElapsed ==
    /\ runPc = "delay"
    /\ now' = now + 1
    /\ delays' = delays \cup {routeIdx}
    /\ StartAudit(NextRoute(routeIdx))
    /\ UNCHANGED <<supabase, failures, remote, localHistory, uuids, saveRet,
                   persisted, runs, routes, results, runInput, migVars, loads, ticks,
                   avgVars, parseVars, histVars, setupVars, uiVars, remoteOps, readVars>>

\* the page load found nothing to migrate, or no remote store
MigEnded ==
    /\ migPc = "done" /\ migTest \in {"success", "failure"} /\ migList = <<>>
    /\ migIdx = 0 /\ migLog = <<>>

\* a page load with nothing to migrate: the connection test has succeeded
\* when there is a client and failed when there is none
InitRun == InitWith(0) /\ MigEnded /\ (migTest = "success" <=> supabase) /\ KeyChecked

\* one run from the button to the results screen
NextRun ==
    \/ ContinueSetup
    \/ TypeUrl
    \/ StepContinue
    \/ BackToUrl
    \/ ContinueCustom
    \/ BackToSettings
    \/ RunStart
    \/ AuditReturns
    \/ DelayElapsed
    \/ RunSaveReturns

SpecRun == InitRun /\ [][NextRun]_vars

\* the program of one browser: runs, page loads and the clock
Next ==
    \/ TypeUrlSample
    \/ StepContinue
    \/ BackToUrl
    \/ ContinueCustom
    \/ BackToSettings
    \/ RunStartSample
    \/ AuditReturnsSample
    \/ DelayElapsed
    \/ RunSaveReturns
    \/ ResetTool
    \/ MigTested
    \/ MigItem
    \/ Reload
    \/ Tick

Spec == Init /\ [][Next]_vars

\* one page load
NextFull ==
    \/ TypeUrlSample
    \/ StepContinue
    \/ BackToUrl
    \/ ContinueCustom
    \/ BackToSettings
    \/ RunStartSample
    \/ AuditReturnsSample
    \/ DelayElapsed
    \/ RunSaveReturns
    \/ MigTested
    \/ MigItem

SpecFull == InitFull /\ [][NextFull]_vars

(***************************************************************************)
(* calculateAverageScores on its own: it is applied to results mappings of *)
(* every length up to MaxRoutes.                                           *)
(***************************************************************************)
\* results mappings of n routes: each entry is what an audit gave, or the
\* all-zero record of a failed audit
RECURSIVE ResultsOfLen(_)
ResultsOfLen(n) ==
    IF n = 0 THEN { <<>> }
    ELSE { ObjSet(r, Paths[n], m) :
             r \in ResultsOfLen(n - 1), m \in MetricsSamples \cup {ZeroMetrics} }

AvgInputs == UNION { ResultsOfLen(n) : n \in 0..MaxRoutes }

InitAvg ==
    /\ InitWith(0) /\ MigEnded /\ KeyConfigured
    /\ supabase = FALSE /\ migTest = "failure"

\* calculateAverageScores(results) is called and returns
AvgApply ==
    \E r \in AvgInputs :
        /\ avgArg' = r
        /\ avgRes' = calculateAverageScores(r)
        /\ UNCHANGED <<storeVars, runVars, migVars, loads, ticks, uiVars, remoteOps,
                       readVars, setupVars, parseVars, histVars>>

NextAvg == AvgApply

SpecAvg == InitAvg /\ [][NextAvg]_vars

Abs(x) == IF x < 0 THEN -x ELSE x

\* C1: calculateAverageScores returns, for each of the four score fields, the
\* mean of that field over the entries rounded to the nearest integer (an
\* integer within half a unit of the mean), and 0 in every field for an empty
\* mapping.
C1_AverageIsRoundedMean ==
    LET n == Len(avgArg) IN
    /\ DOMAIN avgRes = ScoreFields
    /\ avgRes = calculateAverageScores(avgArg)
    /\ \A f \in ScoreFields :
          IF n = 0 THEN avgRes[f] = 0
          ELSE /\ 2 * Abs(avgRes[f] * n - SumField(avgArg, f)) <= n
               \* a mean that ends in .5 is rounded up
               /\ 2 * (avgRes[f] * n - SumField(avgArg, f)) = n \/
                  2 * Abs(avgRes[f] * n - SumField(avgArg, f)) < n

\* three results whose performance scores sum to 242: the mean 80.67 is
\* returned as 81
C1_Witness ==
    /\ Len(avgArg) = 3
    /\ SumField(avgArg, "performance") = 242
    /\ avgRes.performance = 81

(***************************************************************************)
(* Properties of the store and of the migration.                           *)
(***************************************************************************)
\* two results objects hold the same entries, in whatever order
SameMapping(a, b) ==
    /\ Len(a) = Len(b)
    /\ { a[i] : i \in 1..Len(a) } = { b[i] : i \in 1..Len(b) }

\* the step ends a saveResult call with a returned record
SaveReturned == saveRet' # saveRet /\ ~saveRet'.raised

\* the step ends the migration loop (and removes the list)
MigFinishes == migPc = "loop" /\ migPc' = "done"

\* C2: the local fallback list never holds more than 10 records, and every
\* write to it puts the record of the save at index 0, followed by the previous
\* entries in their previous order, of which at most the first 9 are kept (so a
\* write to a full list drops exactly the oldest entry).  The only other change
\* of the list is the migration removing it.
C2_LocalListBounded ==
    /\ [](Len(localHistory) <= LocalCap)
    /\ [][localHistory' # localHistory =>
            \/ localHistory' = <<>> /\ MigFinishes
            \/ /\ SaveReturned
               /\ localHistory'[1].id = saveRet'.value[1].id
               /\ localHistory'[1].timestamp.ms = saveRet'.input[1].timestamp.ms
               /\ localHistory'[1].results = saveRet'.input[1].results
               /\ Tail(localHistory') = Slice0(localHistory, LocalCap - 1)]_vars

\* a save wrote to a full list: the list is still full, the record of a run of
\* this page load is at the head and the oldest record (of run 1) is gone
C2_Witness ==
    /\ Len(localHistory) = LocalCap
    /\ localHistory[1].timestamp.ms > KeepOld + 1
    /\ localHistory[LocalCap].timestamp.ms = 2
    /\ saveRet.caller = "run"

\* C3 (as claimed): no saveResult call raises, and a call whose remote insert
\* failed returns a record with a locally generated id that is in the local list
\* and in no remote row.
C3_SaveNeverRaises ==
    [][saveRet' # saveRet =>
         /\ ~saveRet'.raised
         /\ ~saveRet'.inserted =>
              /\ remote' = remote
              /\ saveRet'.value[1].id = ToString(now')
              /\ MigFinishes \/ localHistory'[1] = saveRet'.value[1]]_vars

\* C4: when a saveResult call returns a record, getResultById with that
\* record's id, made before anything else happens, gives a record with the
\* routes of the saved run, the same results mapping, and avg_scores equal to
\* the averages of those results: whether the lookup is answered by the remote
\* store or falls back to the local list.
C4_RoundTrip ==
    [][(SaveReturned /\ ~MigFinishes) =>
         \A lookupOk \in BOOLEAN :
            LET got == getResultById(saveRet'.value[1].id, remote', localHistory',
                                     supabase', lookupOk)
                arg == saveRet'.input[1]
            IN  /\ got # <<>>
                /\ got[1].routes = arg.routes
                /\ SameMapping(got[1].results, arg.results)
                /\ got[1].avg_scores = calculateAverageScores(arg.results)]_vars

\* a run of two routes, saved by the migration, was accepted by the remote
\* store: the remote lookup gives the row (its results in the key order of
\* jsonb, not in insertion order), the fallback lookup gives the local copy
\* under the same id
C4_Witness ==
    /\ saveRet.caller = "migration" /\ saveRet.inserted /\ ~saveRet.raised
    /\ LET id == saveRet.value[1].id
           r  == getResultById(id, remote, localHistory, supabase, TRUE)
           l  == getResultById(id, remote, localHistory, supabase, FALSE)
       IN  /\ r # <<>> /\ l # <<>>
           /\ r[1].results # saveRet.input[1].results
           /\ SameMapping(r[1].results, saveRet.input[1].results)
           /\ l[1].results = saveRet.input[1].results

\* C5: when the migration loop ends, saveResult has been called exactly once
\* for each record of the list the migration read, in list order, with that
\* record's url, timestamp, routes and results; every call whose insert
\* succeeded added exactly one row to the remote store and every other call
\* none; and the local list is empty.
C5_MigrationOutcome ==
    [][MigFinishes =>
         /\ migTest = "success"
         /\ Len(migLog') = Len(migList)
         /\ \A i \in 1..Len(migList) :
              /\ migLog'[i].arg = MigArgument(migList[i])
              /\ migLog'[i].gained = IF migLog'[i].inserted THEN 1 ELSE 0
         /\ localHistory' = <<>>]_vars

\* a migration of two records has ended: the insert of the first was refused,
\* the insert of the second succeeded, the remote store holds that one row and
\* the local list is empty
C5_Witness ==
    /\ migPc = "done" /\ migTest = "success"
    /\ Len(migList) = 2 /\ Len(migLog) = 2
    /\ ~migLog[1].inserted /\ migLog[2].inserted
    /\ Len(remote) = 1
    /\ remote[1].timestamp.ms = migList[2].timestamp.ms
    /\ localHistory = <<>>

\* C6 (as claimed): the remote store never holds two rows of the same run
\* (runs end in different milliseconds, so a run is known by its timestamp).
C6_OneRemoteRecordPerRun ==
    \A i, j \in 1..Len(remote) :
        i # j => remote[i].timestamp.ms # remote[j].timestamp.ms

\* C7 (as claimed): every run saveResult has returned a record for has a
\* record in the remote store or in the local list.
C7_NeverDeleted ==
    \A t \in persisted :
        \/ \E i \in 1..Len(remote) : remote[i].timestamp.ms = t
        \/ \E i \in 1..Len(localHistory) : localHistory[i].timestamp.ms = t

\* C7 (amended): a row of the remote store is never removed or changed; the
\* remote store only grows at its end.
C7_RemoteRowsKept ==
    [][/\ Len(remote') >= Len(remote)
       /\ \A i \in 1..Len(remote) : remote'[i] = remote[i]]_vars

\* the remote store accepted a run of this page load, the page was loaded
\* again and the migration (which inserted more rows) has ended: the row of the
\* run is still the first row
C7_Witness ==
    /\ loads = 1 /\ migPc = "done" /\ migTest = "success"
    /\ Len(remote) >= 2
    /\ remote[1].timestamp.ms > KeepOld + 1
    /\ remote[1].timestamp.ms \in persisted

(***************************************************************************)
(* Properties of a run.                                                    *)
(***************************************************************************)
PathsOf(rs) == [i \in 1..Len(rs) |-> rs[i].path]

DistinctPaths(rs) == \A i, j \in 1..Len(rs) : i # j => rs[i].path # rs[j].path

\* the audit calls that have ended
Ended == { k \in 1..Len(auditLog) : auditLog[k].ev = "end" }

\* route i's audit call has ended with an error
Failed(i) == \E k \in Ended : auditLog[k].i = i /\ ~auditLog[k].ok

LoopOver == runPc \in {"saving", "done"}

IsZero(m) == \A f \in DOMAIN m : m[f] = 0

RECURSIVE Dedup(_)
Dedup(ps) ==
    IF ps = <<>> THEN <<>>
    ELSE LET init == Dedup(SubSeq(ps, 1, Len(ps) - 1))
             last == ps[Len(ps)]
         IN  IF \E i \in 1..Len(init) : init[i] = last THEN init ELSE Append(init, last)

\* C9 (as claimed): at most one audit call is in flight; the calls start and
\* end strictly in turn, in route order (start 1, end 1, start 2, end 2, ...);
\* and at every moment the results object holds exactly the paths of the
\* routes whose call has ended, in route order (a path used by two routes at
\* its first place).
C9_Sequential ==
    /\ inFlight <= 1
    /\ \A k \in 1..Len(auditLog) :
          /\ auditLog[k].i = (k + 1) \div 2
          /\ auditLog[k].ev = IF k % 2 = 1 THEN "start" ELSE "end"
          /\ auditLog[k].i <= Len(routes)
    /\ inFlight = Len(auditLog) % 2
    /\ ObjKeys(results) = Dedup(SubSeq(PathsOf(routes), 1, Cardinality(Ended)))

\* C10 (as claimed): every audit call but the first was started after the
\* delay that follows the call before it, and no delay follows the last call.
C10_DelayBetweenCalls ==
    /\ \A k \in 1..Len(auditLog) :
          (auditLog[k].ev = "start" /\ auditLog[k].i > 1) => (auditLog[k].i - 1) \in delays
    /\ Len(routes) \notin delays

(***************************************************************************)
(* What App renders (App.tsx 449-481), with the history and comparison     *)
(* views closed.                                                           *)
(***************************************************************************)
\* isLoading is true from the start of runPerformanceTest to its finally block
isLoading == runPc \in {"audit", "delay", "saving"}

\* the chain of if (...) return of the component
Screen(loading, err, st, hasResult) ==
    IF loading THEN "loading"
    ELSE IF err # <<>> THEN "Analysis Failed"
    ELSE IF st = 4 /\ hasResult THEN "results"
    ELSE "setup"

\* C11 (as claimed): a run that has ended shows the results screen, also when
\* its saveResult call raised.
C11_SaveFailureNotFatal ==
    runPc = "done" => Screen(isLoading, error, step, HasCurrentResult) = "results"

(***************************************************************************)
(* The reads of LighthouseStorage.  A domain argument is <<>> (undefined)  *)
(* or <<d>>; queryOk: the request was answered without error.              *)
(***************************************************************************)
\* .limit(50) of getResultsByDomain
QueryLimit == 50

\* LighthouseStorage.getFromLocalStorage: the parsed list, [] when the key is absent
getFromLocalStorage(hist) == hist

\* the entries of a list at the positions in P, in the order of the list
AtPositions(list, P) ==
    [k \in 1..Cardinality(P) |->
        list[CHOOSE i \in P : Cardinality({ m \in P : m <= i }) = k]]

\* query.eq("domain", domain) when a domain is given: the rows kept, in order
EqDomain(rows, domain) ==
    SelectSeq(rows, LAMBDA r : domain = <<>> \/ r.domain = domain[1])

\* .order("timestamp", { ascending: false }): the database gives rows with
\* equal timestamps in an order of its choice; tie: it gives them oldest
\* inserted first, else newest inserted first
OrderByTimestampDesc(rows, tie) ==
    LET Before(i, j) ==
            \/ rows[i].timestamp.ms > rows[j].timestamp.ms
            \/ /\ rows[i].timestamp.ms = rows[j].timestamp.ms
               /\ IF tie THEN i < j ELSE i > j
        Place(i) == 1 + Cardinality({ j \in 1..Len(rows) : Before(j, i) })
    IN  [k \in 1..Len(rows) |-> rows[CHOOSE i \in 1..Len(rows) : Place(i) = k]]

\* LighthouseStorage.getResultsByDomain
getResultsByDomain(domain, rem, hist, configured, queryOk, tie) ==
    IF Attempts(configured) /\ queryOk
    THEN [served |-> "remote",
          value  |-> Slice0(OrderByTimestampDesc(EqDomain(rem, domain), tie), QueryLimit)]
    ELSE [served |-> "local", value |-> getFromLocalStorage(hist)]

\* [...new Set(list)]: each value at its first place
Distinct(list) ==
    AtPositions(list, { i \in 1..Len(list) : \A j \in 1..(i - 1) : list[j] # list[i] })

\* LighthouseStorage.getDomainsFromLocalStorage
getDomainsFromLocalStorage(hist) ==
    Distinct([i \in 1..Len(hist) |-> extractDomain(hist[i].url)])

\* LighthouseStorage.getAllDomains: the remote rows come newest created first
getAllDomains(rem, hist, configured, queryOk) ==
    IF Attempts(configured) /\ queryOk
    THEN [served |-> "remote",
          value  |-> Distinct([i \in 1..Len(rem) |-> rem[Len(rem) + 1 - i].domain])]
    ELSE [served |-> "local", value |-> getDomainsFromLocalStorage(hist)]

(***************************************************************************)
(* The reads of the store, as a caller makes them.  With a client a read   *)
(* sends its select and awaits the answer, and other callbacks run in      *)
(* between; the answer (or, when it is an error, the read of localStorage  *)
(* that follows it) is a step of its own.  With no client the read has no  *)
(* suspension point.  A caller awaits one read at a time.                  *)
(***************************************************************************)
OtherUrl == <<"https://", "shop.test">>

Urls == {BaseUrl, OtherUrl, SchemelessUrl}

\* the k-th run saved before the reads: the sites are tested in turn
StoredInput(k) ==
    [url |-> IF k % 3 = 1 THEN BaseUrl ELSE IF k % 3 = 2 THEN OtherUrl ELSE SchemelessUrl,
     timestamp |-> [repr |-> "number", ms |-> k],
     routes |-> <<HomeRoute>>,
     results |-> <<[path |-> "/", metrics |-> AuditMetrics(61, 70, 83, 0)]>>]

\* the stores after runs i..k were saved on top of the stores st, one run per
\* millisecond; refuse: the remote store refused the insert of every third run
RECURSIVE StoredFrom(_, _, _, _, _)
StoredFrom(i, k, st, configured, refuse) ==
    IF st.uuids >= 0 /\ i > k THEN st
    ELSE StoredFrom(i + 1, k,
                    saveResult(StoredInput(i), i, st.remote, st.history, st.uuids,
                               configured, ~(refuse /\ i % 3 = 0), TRUE, FALSE),
                    configured, refuse)

\* the stores after k runs were saved
Stored(k, configured, refuse) ==
    StoredFrom(1, k, [remote |-> <<>>, history |-> <<>>, uuids |-> 0], configured, refuse)

\* numbers of runs saved before the reads
StoredCounts == {0, 3, QueryLimit + 1}

\* a page load after k runs of earlier page loads were saved, with the
\* migration ended and no run started: the remote table holds the rows the
\* earlier loads inserted; the local list holds what they left in
\* localStorage when the connection test of this load failed (or there is
\* no client), and nothing when the test succeeded, since a migration that
\* had found records would have uploaded and removed them (the list was
\* cleared in the browser, or the rows are of another browser)
LoadedAfter(k, refuse) ==
    /\ supabase \in BOOLEAN
    /\ refuse => (supabase /\ k > 0)
    /\ MigEnded /\ (migTest = "success" => supabase)
    /\ LET st == Stored(k, supabase, refuse)
       IN  /\ remote = st.remote /\ uuids = st.uuids
           /\ localHistory = IF migTest = "success" THEN <<>> ELSE st.history
    /\ failures = 0
    /\ now = k + 1
    /\ persisted = { remote[i].timestamp.ms : i \in 1..Len(remote) }
                      \cup { localHistory[i].timestamp.ms : i \in 1..Len(localHistory) }
    /\ saveRet = NoSave
    /\ RunIdle
    /\ loads = 0 /\ ticks = 0
    /\ avgArg = <<>> /\ avgRes = calculateAverageScores(<<>>)
    /\ error = <<>> /\ step = 1
    /\ remoteOps = IF Attempts(supabase) THEN {"testConnection"} ELSE {}
    /\ readReq = <<>> /\ readRet = NoRead
    /\ KeyConfigured
    /\ rawResponse = <<>> /\ parsed = NoParse
    /\ HistoryClosed

InitRead == \E k \in StoredCounts, refuse \in BOOLEAN : LoadedAfter(k, refuse)

\* the requests a read sends
Selects(configured) == IF Attempts(configured) THEN {"select"} ELSE {}

\* what a read returns on the stores as they are; queryOk: the select is
\* answered without error (for getResultById: with a row, or with the error
\* .single() gives when no row has the id), tie: see OrderByTimestampDesc
ReadResult(op, arg, queryOk, tie) ==
    IF op = "getResultsByDomain"
    THEN LET r == getResultsByDomain(arg, remote, localHistory, supabase, queryOk, tie)
         IN  [op |-> op, arg |-> arg, served |-> r.served, value |-> r.value]
    ELSE IF op = "getAllDomains"
    THEN LET r == getAllDomains(remote, localHistory, supabase, queryOk)
         IN  [op |-> op, arg |-> arg, served |-> r.served, value |-> r.value]
    ELSE LET found == Attempts(supabase) /\ queryOk
                         /\ \E i \in 1..Len(remote) : remote[i].id = arg[1]
         IN  [op |-> op, arg |-> <<arg[1], queryOk>>,
              served |-> IF found THEN "remote" ELSE "local",
              value |-> getResultById(arg[1], remote, localHistory, supabase, queryOk)]

\* a read is called: its select is sent, or with no client it returns
ReadCalled(op, arg) ==
    /\ readReq = <<>>
    /\ IF Attempts(supabase)
       THEN /\ readReq' = <<[op |-> op, arg |-> arg]>>
            /\ remoteOps' = remoteOps \cup Selects(supabase)
            /\ UNCHANGED readRet
       ELSE /\ readRet' = ReadResult(op, arg, FALSE, TRUE)
            /\ UNCHANGED <<readReq, remoteOps>>
    /\ UNCHANGED <<storeVars, runVars, migVars, loads, ticks, avgVars, parseVars, histVars,
                   setupVars, uiVars>>

\* getResultsByDomain(domain) is called
ReadByDomain ==
    \E d \in {<<>>} \cup { <<extractDomain(u)>> : u \in Urls } :
        ReadCalled("getResultsByDomain", d)

\* getAllDomains() is called
ReadAllDomains == ReadCalled("getAllDomains", <<>>)

\* ids looked up: of the oldest and the newest record of each store, and one
\* no record has
IdArgs ==
    { remote[i].id : i \in {1, Len(remote)} \cap DOMAIN remote }
        \cup { localHistory[i].id : i \in {1, Len(localHistory)} \cap DOMAIN localHistory }
        \cup {"0"}

\* getResultById(id) is called
ReadById == \E id \in IdArgs : ReadCalled("getResultById", <<id>>)

\* the select of the pending read is answered, and the read returns
ReadReturns ==
    \E queryOk \in BOOLEAN, tie \in BOOLEAN :
        /\ readReq # <<>>
        /\ tie \/ (readReq[1].op = "getResultsByDomain" /\ queryOk)
        /\ readRet' = ReadResult(readReq[1].op, readReq[1].arg, queryOk, tie)
        /\ readReq' = <<>>
        /\ UNCHANGED <<storeVars, runVars, migVars, loads, ticks, avgVars, parseVars, histVars,
                       setupVars, uiVars, remoteOps>>

NextRead ==
    \/ ReadByDomain
    \/ ReadAllDomains
    \/ ReadById
    \/ ReadReturns
    \/ TypeUrlSample
    \/ StepContinue
    \/ BackToUrl
    \/ ContinueCustom
    \/ BackToSettings
    \/ RunStartSample
    \/ AuditReturnsSample
    \/ DelayElapsed
    \/ RunSaveReturns

SpecRead == InitRead /\ [][NextRead]_vars

(***************************************************************************)
(* Properties of the reads.                                                *)
(***************************************************************************)
\* the records of a list
Range(list) == { list[i] : i \in 1..Len(list) }

\* the step is a read of the store that returns
Reads == readRet' # readRet

\* the step is a call of getResultsByDomain with a domain
ReadsDomain ==
    /\ Reads
    /\ readRet'.op = "getResultsByDomain"
    /\ readRet'.arg # <<>>

\* C12 (as claimed): every record of a getResultsByDomain(d) call that the
\* local fallback served has the domain d.
C12_LocalReadFiltered ==
    (readRet.op = "getResultsByDomain" /\ readRet.arg # <<>> /\ readRet.served = "local")
        => \A i \in 1..Len(readRet.value) : readRet.value[i].domain = readRet.arg[1]

\* C13 (as claimed): every record a getResultsByDomain(d) call returns is
\* among the records getResultsByDomain() returns on the same stores, served
\* by the same store.
C13_UnfilteredIsSuperset ==
    [][ReadsDomain =>
          \A tie \in BOOLEAN :
             LET all == getResultsByDomain(<<>>, remote, localHistory, supabase,
                                           readRet'.served = "remote", tie).value
             IN  Range(readRet'.value) \subseteq Range(all)]_vars

\* the step is a call of getResultById
ReadsId == Reads /\ readRet'.op = "getResultById"

\* the records of a list that have the id
WithTheId(list, id) == { r \in Range(list) : r.id = id }

\* C14 (as claimed): getResultById returns the remote row when the lookup
\* finds it, else the local record with the id when there is one, and null
\* only when neither store holds a record with the id.
C14_NullOnlyWhenAbsent ==
    [][ReadsId =>
          LET id == readRet'.arg[1]
              v  == readRet'.value
          IN  /\ readRet'.served = "remote" => Range(v) = WithTheId(remote, id)
              /\ (readRet'.served = "local" /\ WithTheId(localHistory, id) # {})
                    => (v # <<>> /\ v[1] \in WithTheId(localHistory, id))
              /\ v = <<>> => (WithTheId(remote, id) = {} /\ WithTheId(localHistory, id) = {})]_vars

\* C14 (amended): getResultById returns the remote row when the client exists
\* and the lookup is answered with a row; otherwise the first local record
\* with the id when there is one; otherwise null, also when the remote store
\* holds the record but the lookup ended with an error.
C14_ByIdLookup ==
    [][ReadsId =>
          LET id    == readRet'.arg[1]
              v     == readRet'.value
              found == supabase /\ readRet'.arg[2] /\ WithTheId(remote, id) # {}
              first == { i \in 1..Len(localHistory) :
                           /\ localHistory[i].id = id
                           /\ \A j \in 1..(i - 1) : localHistory[j].id # id }
          IN  /\ found => (Len(v) = 1 /\ v[1] \in WithTheId(remote, id)
                           /\ readRet'.served = "remote")
              /\ (~found /\ first # {}) => \A i \in first : v = <<localHistory[i]>>
              /\ (~found /\ first = {}) => v = <<>>]_vars

\* the remote store holds the row of the first run, the local list no longer
\* holds its copy, and a lookup of its id that ended with an error gave null
C14_Witness ==
    /\ readRet.op = "getResultById"
    /\ supabase /\ ~readRet.arg[2]
    /\ WithTheId(remote, readRet.arg[1]) # {}
    /\ WithTheId(localHistory, readRet.arg[1]) = {}
    /\ Len(localHistory) = LocalCap
    /\ readRet.value = <<>>

\* C15 (as claimed): with no Supabase client no request is ever sent to the
\* remote store, the remote table gains no row, every read is served by the
\* local fallback, and no call of saveResult raises.
C15_LocalOnlyMode ==
    ~supabase =>
        /\ remoteOps = {}
        /\ remote = <<>>
        /\ readRet.op # "none" => readRet.served = "local"
        /\ ~saveRet.inserted
        /\ ~saveRet.raised

(***************************************************************************)
(* Properties of the records saveResult writes.                            *)
(***************************************************************************)
\* a saveResult call has ended whose insert the remote store accepted
SaveInserted == saveRet' # saveRet /\ saveRet'.inserted

\* C16 (as claimed): a saveResult call whose insert succeeded returns the row
\* the remote store gave back and does not raise, also when the write of the
\* local copy fails; when the local list is written, its newest record has
\* the id of the remote row.
C16_BackupWriteBestEffort ==
    [][SaveInserted =>
          /\ ~saveRet'.raised
          /\ saveRet'.value = <<remote'[Len(remote')]>>
          /\ (localHistory' # localHistory /\ localHistory' # <<>>)
                => localHistory'[1].id = remote'[Len(remote')].id]_vars

\* the records the two stores hold
Records(rem, hist) == Range(rem) \cup Range(hist)

\* C17 (as claimed): the record of a run (a run is known by the instant of its
\* timestamp) keeps the id it was first persisted with in every store, and
\* when the migration ends every record it read from the local list is found
\* by getResultById under the id it had there.
C17_IdAssignedOnce ==
    [][/\ \A r \in Records(remote, localHistory) :
             \A q \in Records(remote', localHistory') :
                 q.timestamp.ms = r.timestamp.ms => q.id = r.id
       /\ MigFinishes =>
             \A i \in 1..Len(migList) :
                 LET v == getResultById(migList[i].id, remote', localHistory',
                                        supabase, TRUE)
                 IN  v # <<>> /\ v[1].timestamp.ms = migList[i].timestamp.ms]_vars

\* C18 (as claimed): the records of the local list have pairwise distinct ids.
C18_LocalIdsDistinct ==
    \A i, j \in 1..Len(localHistory) :
        localHistory[i].id = localHistory[j].id => i = j

\* C19 (as claimed): no record of either store carries a numeric timestamp,
\* the records of the two stores carry their timestamps in one representation,
\* and a remote row and its local copy (the record with the same id) carry
\* the same timestamp.
C19_TimestampCanonical ==
    /\ \A r \in Records(remote, localHistory) : r.timestamp.repr # "number"
    /\ \A r, q \in Records(remote, localHistory) : r.timestamp.repr = q.timestamp.repr
    /\ \A r \in Range(remote) : \A q \in Range(localHistory) :
           q.id = r.id => q.timestamp = r.timestamp

\* avg holds, for each score field, the mean of the field over the entries of
\* res rounded to the nearest integer (halves up), and 0 when res is empty
IsRoundedMean(avg, res) ==
    LET n == Len(res) IN
    /\ DOMAIN avg = ScoreFields
    /\ \A f \in ScoreFields :
          IF n = 0 THEN avg[f] = 0
          ELSE LET d == avg[f] * n - SumField(res, f)
               IN  2 * d = n \/ 2 * Abs(d) < n

\* C20: every record of the remote store and of the local list has avg_scores
\* equal to the rounded mean of its own results, and the argument of every
\* saveResult call of the migration carries url, timestamp, routes and
\* results only, so that the averages are computed again from the results.
C20_AveragesDerived ==
    /\ \A r \in Records(remote, localHistory) : IsRoundedMean(r.avg_scores, r.results)
    /\ \A i \in 1..Len(migLog) :
          DOMAIN migLog[i].arg = {"url", "timestamp", "routes", "results"}

\* the migration has written the row of a run of two routes whose
\* performance scores 81 and 0 have the mean 40.5: the row holds 41
C20_Witness ==
    /\ saveRet.caller = "migration" /\ saveRet.inserted
    /\ Len(saveRet.input[1].results) = 2
    /\ remote # <<>>
    /\ LET row == remote[Len(remote)]
       IN  /\ Len(row.results) = 2
           /\ SumField(row.results, "performance") = 81
           /\ row.avg_scores.performance = 41

\* new URL(url) does not throw: the text starts with a scheme and names a host
ParsesAsUrl(url) == Len(url) >= 2 /\ url[1] \in Schemes

\* C21: every record of either store has domain equal to the hostname of its
\* url when the url parses as a URL, and equal to the url itself when it does
\* not.
C21_DomainFromUrl ==
    \A r \in Records(remote, localHistory) :
        IF ParsesAsUrl(r.url) THEN r.domain = <<r.url[2]>> ELSE r.domain = r.url

\* both stores hold records whose url does not parse, and the remote store,
\* asked for the records of the domain "httpexample.com", has returned them
C21_Witness ==
    /\ \E r \in Range(localHistory) : ~ParsesAsUrl(r.url) /\ r.domain = r.url
    /\ \E r \in Range(remote) : ParsesAsUrl(r.url) /\ r.domain = <<"shop.test">>
    /\ readRet.op = "getResultsByDomain"
    /\ readRet.arg = <<SchemelessUrl>>
    /\ readRet.served = "remote"
    /\ readRet.value # <<>>
    /\ \A i \in 1..Len(readRet.value) : readRet.value[i].url = SchemelessUrl

(***************************************************************************)
(* Properties of the audit calls of a run.                                 *)
(***************************************************************************)
\* the path with a slash put before it when it has none
WithLeadingSlash(tokens) ==
    IF tokens # <<>> /\ tokens[1] = "/" THEN tokens ELSE <<"/">> \o tokens

\* C22 (as claimed): the URL of every audit call of a run is the base URL
\* without its trailing slash followed by the path of the route, with a slash
\* put before the path when it was typed without one.
C22_AuditedUrl ==
    \A k \in 1..Len(auditLog) :
        auditLog[k].url = StripTrailingSlash(baseUrl)
                             \o WithLeadingSlash(PathTokens(routes[auditLog[k].i].path))

(***************************************************************************)
(* LighthouseService.parsePageSpeedResults, the normalizer of a PageSpeed  *)
(* response.  An optional member is <<>> (undefined) or <<v>>; the body of *)
(* the response is <<>> (null) or <<object>>.  Numbers that may have a     *)
(* fraction (scores 0..1, times, cls) are held in thousandths: 1.2 is      *)
(* 1200.  A display string is the sequence of its pieces: a run of digits  *)
(* and dots, or text between such runs; "1.2 s" is the run 1.2 and the     *)
(* text " s", "1,230 ms" is the run 1, the text ",", the run 230 and the   *)
(* text " ms".                                                             *)
(***************************************************************************)
\* the scores s (in thousandths) with s * 100 half-way between two integers
\* whose product in double arithmetic falls below the half: 0.145 * 100 is
\* 14.499999999999998
HalfFallsBelow == {145, 285, 565, 575}

\* Math.round((score || 0) * 100) for a score in thousandths
ScoreToPoints(score) ==
    IF score = <<>> THEN 0
    ELSE IF score[1] \in HalfFallsBelow THEN (score[1] * 100) \div One
    ELSE MathRoundDiv(score[1] * 100, One)

\* a run of digits and dots that spells the number n, the run "." and a
\* piece of text without digits and dots
Digits(n) == [run |-> TRUE, dot |-> FALSE, n |-> n, text |-> ""]
DotRun == [run |-> TRUE, dot |-> TRUE, n |-> 0, text |-> "."]
Text(t) == [run |-> FALSE, dot |-> FALSE, n |-> 0, text |-> t]

\* what parseFloat gives for a text that spells no number
NaN == -1

\* value.match(/[\d.]+/): <<>> is null, else <<the first run>>
FirstRun(value) ==
    LET at == { i \in 1..Len(value) : value[i].run }
    IN  IF at = {} THEN <<>> ELSE <<value[CHOOSE i \in at : \A j \in at : i <= j]>>

\* parseFloat(match[0])
parseFloat(piece) == IF piece.dot THEN NaN ELSE piece.n

\* value.includes("ms"), value.includes("s")
IncludesMs(value) == \E i \in 1..Len(value) : value[i].text \in {" ms"}
IncludesS(value) == \E i \in 1..Len(value) : value[i].text \in {" s", " ms"}

\* LighthouseService.parseTimeValue: every branch returns the number of the
\* first run
parseTimeValue(value, isMilliseconds) ==
    IF value = <<>> \/ value[1] = <<>> THEN 0
    ELSE IF FirstRun(value[1]) = <<>> THEN 0
    ELSE LET numValue == parseFloat(FirstRun(value[1])[1])
         IN  IF isMilliseconds /\ IncludesMs(value[1]) THEN numValue
             ELSE IF ~isMilliseconds /\ IncludesS(value[1]) THEN numValue
             ELSE numValue

\* LighthouseService.parseNumericValue
parseNumericValue(value) ==
    IF value = <<>> \/ value[1] = <<>> THEN 0
    ELSE IF FirstRun(value[1]) = <<>> THEN 0
    ELSE parseFloat(FirstRun(value[1])[1])

\* audit?.numericValue and audit?.displayValue
NumericValueOf(audit) == IF audit = <<>> THEN <<>> ELSE audit[1].numericValue
DisplayValueOf(audit) == IF audit = <<>> THEN <<>> ELSE audit[1].displayValue

\* a || b for an optional number a: undefined and 0 are falsy
OrElse(a, b) == IF a = <<>> \/ a = <<0>> THEN b ELSE a[1]

\* the record returned when categories or audits are missing
NoMetrics ==
    [performance |-> 0, accessibility |-> 0, bestPractices |-> 0, seo |-> 0,
     fcp |-> 0, lcp |-> 0, cls |-> 0, fid |-> 0, tbt |-> 0, si |-> 0]

\* the audit read for fid: audits["first-input-delay"] || audits["max-potential-fid"]
FidAudit(audits) == IF audits.fid # <<>> THEN audits.fid ELSE audits.mpfid

\* data.lighthouseResult of a null body is a TypeError
parsePageSpeedResults(data) ==
    IF data = <<>> THEN [raised |-> TRUE, metrics |-> <<>>]
    ELSE
    LET lr == data[1].lighthouseResult
        categories == IF lr = <<>> THEN <<>> ELSE lr[1].categories
        audits     == IF lr = <<>> THEN <<>> ELSE lr[1].audits
    IN  IF categories = <<>> \/ audits = <<>>
        THEN [raised |-> FALSE, metrics |-> <<NoMetrics>>]
        ELSE LET c == categories[1]
                 a == audits[1]
                 f == FidAudit(a)
             IN  [raised |-> FALSE,
                  metrics |-> <<
                    [performance   |-> ScoreToPoints(c.performance),
                     accessibility |-> ScoreToPoints(c.accessibility),
                     bestPractices |-> ScoreToPoints(c.bestPractices),
                     seo           |-> ScoreToPoints(c.seo),
                     fcp |-> OrElse(NumericValueOf(a.fcp),
                                    parseTimeValue(DisplayValueOf(a.fcp), FALSE)),
                     lcp |-> OrElse(NumericValueOf(a.lcp),
                                    parseTimeValue(DisplayValueOf(a.lcp), FALSE)),
                     cls |-> OrElse(NumericValueOf(a.cls),
                                    parseNumericValue(DisplayValueOf(a.cls))),
                     fid |-> OrElse(NumericValueOf(f),
                                    parseTimeValue(DisplayValueOf(f), TRUE)),
                     tbt |-> OrElse(NumericValueOf(a.tbt),
                                    parseTimeValue(DisplayValueOf(a.tbt), TRUE)),
                     si  |-> OrElse(NumericValueOf(a.si),
                                    parseTimeValue(DisplayValueOf(a.si), FALSE))] >>]

\* display strings: "1.2 s" and the like, "1,230 ms", "." and "n/a"
Display(n, unit) == << <<Digits(n), Text(unit)>> >>
DisplayThousands == << <<Digits(One), Text(","), Digits(230 * One), Text(" ms")>> >>
DisplayDot == << <<DotRun>> >>
DisplayNoNumber == << <<Text("n/a")>> >>

\* audit entries of a response: with a numeric value, with a display string
\* only, with neither
Audit(numericValue, displayValue) ==
    <<[numericValue |-> numericValue, displayValue |-> displayValue]>>

TimeAudits ==
    { <<>>,
      Audit(<<1200 * One>>, Display(1200, " s")),
      Audit(<<>>, Display(2 * One, " s")),
      Audit(<<>>, Display(1200, " s")),
      Audit(<<>>, Display(150 * One, " ms")),
      Audit(<<>>, DisplayThousands),
      Audit(<<>>, DisplayDot),
      Audit(<<>>, DisplayNoNumber),
      Audit(<<>>, <<>>) }

ShiftAudits ==
    { <<>>, Audit(<<50>>, Display(50, "")), Audit(<<>>, Display(120, "")),
      Audit(<<>>, DisplayDot) }

Scores == { <<>>, <<0>>, <<145>>, <<855>>, <<One>> }

\* responses of the PageSpeed API, well formed and not
RawResponses ==
    { <<>>,
      <<[lighthouseResult |-> <<>>]>>,
      <<[lighthouseResult |-> <<[categories |-> <<>>, audits |-> <<>>]>>]>> }
    \cup
    { <<[lighthouseResult |-> <<
         [categories |-> <<[performance |-> p, accessibility |-> o,
                            bestPractices |-> o, seo |-> <<920>>]>>,
          audits |-> <<[fcp |-> t, lcp |-> t, si |-> t, cls |-> c,
                        fid |-> d, mpfid |-> Audit(<<>>, Display(130 * One, " ms")),
                        tbt |-> d]>>]>>]>> :
        p \in Scores, o \in {<<>>, <<900>>}, t \in TimeAudits, c \in ShiftAudits,
        d \in { <<>>, Audit(<<>>, Display(150 * One, " ms")), Audit(<<>>, Display(2 * One, " s")) } }

InitParse ==
    /\ InitWith(0) /\ MigEnded /\ KeyConfigured
    /\ supabase = FALSE /\ migTest = "failure"

\* parsePageSpeedResults is applied to a response
ParseApply ==
    \E data \in RawResponses :
        /\ rawResponse' = <<data>>
        /\ parsed' = parsePageSpeedResults(data)
        /\ UNCHANGED <<storeVars, runVars, migVars, loads, ticks, avgVars, uiVars,
                       remoteOps, readVars, setupVars, histVars>>

NextParse == ParseApply

SpecParse == InitParse /\ [][NextParse]_vars

\* the body is an object with a lighthouseResult member
HasWrapper(data) == data # <<>> /\ data[1].lighthouseResult # <<>>

\* C23 (as claimed): the normalizer signals an error, and returns no Metrics
\* record, when the response has no lighthouseResult wrapper, and it does
\* not fail when the wrapper is there, whichever category or audit fields
\* are missing.
C23_MalformedSignalled ==
    rawResponse # <<>> =>
        IF ~HasWrapper(rawResponse[1])
        THEN parsed.raised /\ parsed.metrics = <<>>
        ELSE ~parsed.raised /\ parsed.metrics # <<>>

\* the audit entry a field of the Metrics record is read from
AuditFor(audits, f) == IF f = "fid" THEN FidAudit(audits) ELSE audits[f]

\* the entry has no numeric value and a display string of a number and its
\* unit
DisplayOnly(audit) ==
    /\ audit # <<>>
    /\ audit[1].numericValue = <<>>
    /\ audit[1].displayValue # <<>>
    /\ Len(audit[1].displayValue[1]) = 2
    /\ audit[1].displayValue[1][1].run /\ ~audit[1].displayValue[1][1].dot
    /\ ~audit[1].displayValue[1][2].run

\* C24 (as claimed): a time field read from the display string of its audit
\* entry is in milliseconds (1000 * N for "N s", N for "N ms"), and cls read
\* from its display string is the number shown.
C24_TimeFieldsInMs ==
    (rawResponse # <<>> /\ HasWrapper(rawResponse[1])
        /\ rawResponse[1][1].lighthouseResult[1].audits # <<>>) =>
        LET audits == rawResponse[1][1].lighthouseResult[1].audits[1]
            m      == parsed.metrics[1]
        IN  /\ \A f \in {"fcp", "lcp", "tbt", "si", "fid"} :
                  LET audit == AuditFor(audits, f) IN
                  DisplayOnly(audit) =>
                      LET d == audit[1].displayValue[1]
                      IN  m[f] = IF d[2].text = " s" THEN 1000 * d[1].n ELSE d[1].n
            /\ DisplayOnly(audits.cls) => m.cls = audits.cls[1].displayValue[1][1].n

\* the ranges of the category scores of the mock branch
InDemoRanges(m) ==
    /\ m.performance \in 70..99
    /\ m.accessibility \in 80..99
    /\ m.bestPractices \in 75..99
    /\ m.seo \in 80..99

\* C25 (as claimed): with no PageSpeed API key in the environment a run takes
\* the mock branch (analyzeUrlWithFullData is not called), no request goes
\* out to the PageSpeed API, and every result the run has stored has its
\* category scores in the demo ranges.
C25_DemoMode ==
    (~apiKey /\ runPc # "idle") =>
        /\ ~hasApiKey
        /\ auditLog = <<>>
        /\ \A k \in 1..Len(auditLog) : ~auditLog[k].sent
        /\ \A i \in 1..Len(results) : InDemoRanges(results[i].metrics)

C26_NoMigrationWithoutConnection ==
    [][(migTest' = "failure") =>
          /\ migPc' = "done"
          /\ migLog' = <<>>
          /\ (remote' # remote \/ localHistory' # localHistory)
                => (saveRet' # saveRet /\ saveRet'.caller = "run")]_vars

\* the connection test failed with a client configured and two records in
\* the local list: nothing was inserted and the list is as it was
C26_Witness ==
    /\ supabase /\ migTest = "failure" /\ migPc = "done"
    /\ migLog = <<>>
    /\ remote = <<>>
    /\ localHistory = OldHistory(2)

\* C27 (as claimed): the step that ends the migration and removes the local
\* list drops no record the migration did not try to upload: a record that is
\* in the local list before the step and was not in the list the migration
\* read is in the remote table or in the local list after it.
C27_ClearKeepsUnattempted ==
    [][MigFinishes =>
         \A i \in 1..Len(localHistory) :
            (\A j \in 1..Len(migList) :
                 migList[j].timestamp.ms # localHistory[i].timestamp.ms)
            => \E r \in Records(remote', localHistory') :
                 r.timestamp.ms = localHistory[i].timestamp.ms]_vars

(***************************************************************************)
(* The history view (HistoryView) and the comparison view.  App renders    *)
(* the comparison view when showComparison is set, else the history view   *)
(* when showHistory is set, else its own screens.  The search box only     *)
(* narrows the cards shown, so a click may reach any record of the list.   *)
(***************************************************************************)
\* Limit to 3 comparisons
CompareLimit == 3

\* handleCompare opens the comparison with at least this many results
CompareAtLeast == 2

\* the ids of a list of records
IdsOf(list) == { list[i].id : i \in 1..Len(list) }

\* if (loading) return <spinner>: header, filters and cards are rendered
\* only when no load has set loading
RendersView(busy) == ~busy

\* loadData() for the domain d: setLoading(true), and the two reads of
\* Promise.all are called.  With a client both selects are sent and the call
\* awaits the answers.  With no client both reads return what localStorage
\* holds and the continuation (setDomains, setResults, setLoading(false))
\* runs before any other callback.
loadData(d, loadsBefore, resultsBefore, domainsBefore) ==
    IF Attempts(supabase)
    THEN /\ histLoading' = TRUE
         /\ pendingLoads' = Append(loadsBefore, [domain |-> d, allDomains |-> <<>>,
                                                 domainResults |-> <<>>])
         /\ remoteOps' = remoteOps \cup Selects(supabase)
         /\ histResults' = resultsBefore
         /\ domains' = domainsBefore
    ELSE /\ histLoading' = FALSE
         /\ pendingLoads' = loadsBefore
         /\ domains' = getAllDomains(remote, localHistory, FALSE, FALSE).value
         /\ histResults' = getResultsByDomain(d, remote, localHistory, FALSE, FALSE,
                                              TRUE).value
         /\ UNCHANGED remoteOps

\* useState initial values of HistoryView, and the effect's first loadData()
Mount ==
    /\ selectedDomain' = <<>>
    /\ selectedResults' = {} /\ compareMode' = FALSE
    /\ loadData(<<>>, <<>>, <<>>, <<>>)

\* HistoryView leaves the screen: its state is gone, and a response that
\* arrives later sets nothing
Unmount ==
    /\ histResults' = <<>> /\ domains' = <<>> /\ selectedDomain' = <<>>
    /\ selectedResults' = {} /\ compareMode' = FALSE
    /\ histLoading' = FALSE
    /\ pendingLoads' = <<>>

\* "View History" on the set-up screens and on the results screen
OpenHistory ==
    /\ ~showHistory /\ ~showComparison
    /\ runPc \in {"idle", "done"} /\ error = <<>> /\ UiPastStepOne
    /\ showHistory' = TRUE
    /\ Mount
    /\ UNCHANGED <<storeVars, runVars, migVars, loads, ticks, avgVars, parseVars, setupVars,
                   uiVars, readVars, showComparison, comparisonResults, loadedResult>>

\* a list without its k-th entry
Without(list, k) == SubSeq(list, 1, k - 1) \o SubSeq(list, k + 1, Len(list))

\* a read of the k-th loadData call has returned and the call is now as
\* load: when both reads have returned, the continuation runs: setDomains,
\* setResults and, in the finally block, setLoading(false)
LoadSettles(k, load) ==
    IF load.allDomains # <<>> /\ load.domainResults # <<>>
    THEN /\ domains' = load.allDomains[1]
         /\ histResults' = load.domainResults[1]
         /\ histLoading' = FALSE
         /\ pendingLoads' = Without(pendingLoads, k)
    ELSE /\ pendingLoads' = [pendingLoads EXCEPT ![k] = load]
         /\ UNCHANGED <<domains, histResults, histLoading>>

\* the select of getAllDomains of a loadData call is answered
DomainsAnswered ==
    \E k \in 1..Len(pendingLoads), queryOk \in BOOLEAN :
        /\ showHistory
        /\ pendingLoads[k].allDomains = <<>>
        /\ LoadSettles(k, [pendingLoads[k] EXCEPT !.allDomains =
                              <<getAllDomains(remote, localHistory, supabase, queryOk).value>>])
        /\ UNCHANGED <<storeVars, runVars, migVars, loads, ticks, avgVars, parseVars, setupVars,
                       uiVars, remoteOps, readVars, showHistory, showComparison,
                       comparisonResults, loadedResult, selectedDomain, selectedResults,
                       compareMode>>

\* the select of getResultsByDomain of a loadData call is answered
ResultsAnswered ==
    \E k \in 1..Len(pendingLoads), queryOk \in BOOLEAN, tie \in BOOLEAN :
        /\ showHistory
        /\ pendingLoads[k].domainResults = <<>>
        /\ tie \/ queryOk
        /\ LoadSettles(k, [pendingLoads[k] EXCEPT !.domainResults =
                              <<getResultsByDomain(pendingLoads[k].domain, remote, localHistory,
                                                   supabase, queryOk, tie).value>>])
        /\ UNCHANGED <<storeVars, runVars, migVars, loads, ticks, avgVars, parseVars, setupVars,
                       uiVars, remoteOps, readVars, showHistory, showComparison,
                       comparisonResults, loadedResult, selectedDomain, selectedResults,
                       compareMode>>

\* the options of the domain select
DomainOptions == {<<>>} \cup { <<domains[i]>> : i \in 1..Len(domains) }

\* onChange of the domain select: setSelectedDomain, and the effect calls loadData
ChangeDomain ==
    \E d \in DomainOptions :
        /\ showHistory /\ RendersView(histLoading)
        /\ d # selectedDomain
        /\ selectedDomain' = d
        /\ loadData(d, pendingLoads, histResults, domains)
        /\ UNCHANGED <<storeVars, runVars, migVars, loads, ticks, avgVars, parseVars, setupVars,
                       uiVars, readVars, showHistory, showComparison, comparisonResults,
                       loadedResult, selectedResults, compareMode>>

\* the "Compare Mode" / "Cancel Compare" button
ToggleCompareMode ==
    /\ showHistory /\ RendersView(histLoading)
    /\ compareMode' = ~compareMode
    /\ selectedResults' = {}
    /\ UNCHANGED <<storeVars, runVars, migVars, loads, ticks, avgVars, parseVars, setupVars,
                   uiVars, remoteOps, readVars, showHistory, showComparison, comparisonResults,
                   loadedResult, histResults, domains, selectedDomain, histLoading,
                   pendingLoads>>

\* handleResultSelect in compare mode: the new selection
SelectToggled(selected, resultId) ==
    IF resultId \in selected THEN selected \ {resultId}
    ELSE IF Cardinality(selected) < CompareLimit THEN selected \cup {resultId}
    ELSE selected

\* results.find(r => r.id === resultId)
FindById(list, resultId) ==
    list[CHOOSE i \in 1..Len(list) :
            /\ list[i].id = resultId
            /\ \A j \in 1..(i - 1) : list[j].id # resultId]

\* loadHistoryResult: the record made the current result
loadHistoryResult(result) ==
    [id |-> result.id, url |-> result.url, timestamp |-> result.timestamp,
     routes |-> result.routes, results |-> result.results]

\* a click on a card: handleResultSelect; outside compare mode
\* loadHistoryResult shows the record on the results screen
ClickResult ==
    \E resultId \in IdsOf(histResults) :
        /\ showHistory /\ RendersView(histLoading)
        /\ IF compareMode
           THEN /\ selectedResults' = SelectToggled(selectedResults, resultId)
                /\ UNCHANGED <<showHistory, loadedResult, step, histResults, domains,
                               selectedDomain, histLoading, compareMode, pendingLoads>>
           ELSE /\ loadedResult' = <<loadHistoryResult(FindById(histResults, resultId))>>
                /\ showHistory' = FALSE
                /\ step' = 4
                /\ Unmount
        /\ UNCHANGED <<storeVars, runVars, migVars, loads, ticks, avgVars, parseVars, setupVars,
                       error, remoteOps, readVars, showComparison, comparisonResults>>

\* results.filter(r => selectedResults.has(r.id))
resultsToCompare(list, selected) == SelectSeq(list, LAMBDA r : r.id \in selected)

\* the "Compare n Results" button, rendered in compare mode with two or more
\* ids selected: handleCompare, and handleCompareResults of App
ClickCompare ==
    /\ showHistory /\ RendersView(histLoading)
    /\ compareMode /\ Cardinality(selectedResults) >= CompareAtLeast
    /\ LET chosen == resultsToCompare(histResults, selectedResults)
       IN  IF Len(chosen) >= CompareAtLeast
           THEN /\ comparisonResults' = chosen
                /\ showHistory' = FALSE
                /\ showComparison' = TRUE
                /\ Unmount
           ELSE UNCHANGED <<comparisonResults, showHistory, showComparison, viewVars>>
    /\ UNCHANGED <<storeVars, runVars, migVars, loads, ticks, avgVars, parseVars, setupVars,
                   uiVars, remoteOps, readVars, loadedResult>>

\* onBack of the comparison view: the history view is mounted again
CompareBack ==
    /\ showComparison
    /\ showComparison' = FALSE
    /\ showHistory' = TRUE
    /\ Mount
    /\ UNCHANGED <<storeVars, runVars, migVars, loads, ticks, avgVars, parseVars, setupVars,
                   uiVars, readVars, comparisonResults, loadedResult>>

\* onBack of the history view
HistoryBack ==
    /\ showHistory /\ RendersView(histLoading)
    /\ showHistory' = FALSE
    /\ Unmount
    /\ UNCHANGED <<storeVars, runVars, migVars, loads, ticks, avgVars, parseVars, setupVars,
                   uiVars, remoteOps, readVars, showComparison, comparisonResults,
                   loadedResult>>

\* runs saved before the history is opened
HistoryRuns == 4

\* a page load after runs of three sites were saved
InitStored == LoadedAfter(HistoryRuns, FALSE)

\* the page was loaded with two records in the local list and the migration
\* has started; a run ended and its insert was refused, and in the same
\* millisecond the insert for the first record of the migration was refused;
\* the migration awaits the answer for the second
InitMidMigration ==
    LET old    == OldHistory(2)
        t      == KeepOld + 5
        sample == [routes |-> RoutesOfRun("custom", SampleRoutes),
                   results |-> <<[path |-> "/b", metrics |-> AuditMetrics(80, 91, 75, 100)],
                                 [path |-> "/a", metrics |-> AuditMetrics(80, 91, 75, 100)]>>]
        arg    == [url |-> BaseUrl, timestamp |-> [repr |-> "number", ms |-> t],
                   routes |-> sample.routes, results |-> sample.results]
        s1     == saveResult(arg, t, <<>>, old, 0, TRUE, FALSE, TRUE, FALSE)
        marg   == MigArgument(old[1])
        s2     == saveResult(marg, t, s1.remote, s1.history, s1.uuids, TRUE, FALSE, TRUE, FALSE)
    IN  /\ supabase = TRUE
        /\ remote = s2.remote /\ localHistory = s2.history /\ uuids = s2.uuids
        /\ failures = 2
        /\ now = t
        /\ persisted = {1, 2, t}
        /\ saveRet = [seq |-> 2, caller |-> "migration", input |-> <<marg>>,
                      inserted |-> s2.inserted, raised |-> s2.raised, value |-> s2.value]
        /\ runPc = "done" /\ runs = 1 /\ routes = sample.routes /\ routeIdx = 2
        /\ results = sample.results
        /\ inFlight = 0 /\ delays = {1} /\ runInput = <<>>
        /\ auditLog = <<AuditEvent("start", 1, TRUE, sample.routes, BaseUrl, TRUE),
                        AuditEvent("end", 1, TRUE, sample.routes, BaseUrl, TRUE),
                        AuditEvent("start", 2, TRUE, sample.routes, BaseUrl, TRUE),
                        AuditEvent("end", 2, TRUE, sample.routes, BaseUrl, TRUE)>>
        /\ baseUrl = BaseUrl
        /\ error = <<>> /\ step = 4
        /\ migPc = "loop" /\ migTest = "success" /\ migList = old /\ migIdx = 2
        /\ migLog = <<[arg |-> marg, inserted |-> s2.inserted,
                       gained |-> Len(s2.remote) - Len(s1.remote)]>>
        /\ loads = 0 /\ ticks = 0
        /\ avgArg = <<>> /\ avgRes = calculateAverageScores(<<>>)
        /\ remoteOps = {"testConnection", "insert"}
        /\ readReq = <<>> /\ readRet = NoRead
        /\ apiKey = TRUE /\ hasApiKey = apiKey
        /\ rawResponse = <<>> /\ parsed = NoParse
        /\ HistoryClosed

InitHistory == InitStored \/ InitMidMigration

\* the history and comparison views, and the migration of the page load,
\* whose saveResult calls change the stores while a view is open.  "View
\* History" is not rendered while a run is under way, so a run never changes
\* the stores under an open view; the stores a run leaves are those of the
\* start states (InitMidMigration is the state a run has just ended in).
NextHistory ==
    \/ OpenHistory
    \/ DomainsAnswered
    \/ ResultsAnswered
    \/ ChangeDomain
    \/ ToggleCompareMode
    \/ ClickResult
    \/ ClickCompare
    \/ CompareBack
    \/ HistoryBack
    \/ ResetTool
    \/ MigItem

SpecHistory == InitHistory /\ [][NextHistory]_vars

\* C29 (as claimed): after any sequence of clicks the comparison view is open
\* with 2 or 3 results only, the selection of compare mode never holds more
\* than 3 ids, and a step that toggles compare mode leaves the selection empty.
C29_CompareTwoOrThree ==
    [][/\ showComparison' => Len(comparisonResults') \in CompareAtLeast..CompareLimit
       /\ Cardinality(selectedResults') <= CompareLimit
       /\ compareMode' # compareMode => selectedResults' = {}]_vars

====
